---- MODULE Spec2Model ----
(***************************************************************************)
(* Model of the TCP stack of kubasejdak-org/utils: TcpConnection (timeout  *)
(* bounded read/write over one socket), TcpServer (listening thread,       *)
(* admission semaphore, one thread per accepted connection) and the peers  *)
(* and kernel sockets they talk to.                                        *)
(*                                                                         *)
(* The Watchdog (clients with timeouts, one supervising thread) and the    *)
(* StateMachine (states with hooks behind a recursive mutex) of the same   *)
(* repository are modelled next to it.                                     *)
(*                                                                         *)
(* The specifications share the variables:                                 *)
(*   Spec       the server with its listening thread, its connection       *)
(*              threads and the handlers running in them (silent peers);   *)
(*   ConnSpec   one client-side TcpConnection (no parent flag) and its     *)
(*              peer, with the bytes of the stream modelled one by one;    *)
(*   ApiSpec    start(port) and setConnectionHandler() of the server;      *)
(*   ClientSpec the TcpClient;                                             *)
(*   WdSpec     the Watchdog, with time in ticks;                          *)
(*   FsmSpec    the StateMachine used by several threads.                  *)
(* FairSpec and FairConnSpec add the fairness the scheduler provides.      *)
(***************************************************************************)
EXTENDS Integers, Sequences, FiniteSets, TLC

\* ---------------------------------------------------------------- bounds
MaxUnits == 2       \* connection threads created over the whole run
MaxN == 2           \* maxConnections is drawn from 1..MaxN
MaxStream == 2      \* bytes the peer of the client-side connection sends
MaxReadSize == 2    \* largest size passed to read()
MaxWriteSize == 2   \* largest size passed to write()
MaxPeerRx == 3      \* bytes the peer takes during one call of write()
MaxT == 2           \* largest timeout of a watchdog client, in ticks
MaxTime == 3        \* ticks a started watchdog is followed
MaxTokens == 1      \* signals that pile up on the semaphore of the watchdog
MaxThreads == 2     \* threads that use the StateMachine
MaxObjects == 3     \* state objects constructed over the whole run
SizeMod == 8        \* std::size_t arithmetic is modulo SizeMod (2^64 scaled down)

\* ------------------------------------------------------------- constants
m_cUninitialized == -1
BadFd == 0
ListenFd == 100
cPort == 10101          \* the port of the tests
cOtherPort == 10102     \* another valid port
cNegPort == -50000      \* the invalid port of the tests

\* The ports passed to start(port) and to the constructor.
StartPorts == {cPort, cOtherPort, cNegPort}
CtorPorts == {m_cUninitialized, cPort, cNegPort}

\* Endpoint{}: empty ip, port 0, no name.
EmptyEndpoint == [ip |-> "", port |-> 0, name |-> "none"]
LocalEndpoint == [ip |-> "127.0.0.1", port |-> 1, name |-> "none"]
RemoteEndpoint == [ip |-> "127.0.0.1", port |-> cPort, name |-> "localhost"]

UnitIds == 1..MaxUnits
ConnIds == 0..MaxUnits      \* 0 is the client-side connection of ConnSpec
Fds == 1..MaxUnits          \* descriptors of connected sockets

VARIABLES
    m_running,        \* TcpServer::m_running
    m_socket,         \* TcpServer::m_socket (listening socket)
    listenOpen,       \* kernel: the listening socket is open
    semConn,          \* TcpServer::m_connectionsSemaphore
    semStart,         \* TcpServer::m_startSemaphore
    maxConnections,   \* TcpServer::m_maxConnections
    handlerKind,      \* the registered handler: "coop" or "any"
    ctrl,             \* position of the thread calling start()/stop()
    lastCall,         \* last call that returned to that thread
    lastRet,          \* and its result
    listenPc,         \* position of the listening thread
    units,            \* connection threads: [pc, rel]
    nextUnit,         \* index of the next connection thread
    accSocket,        \* the stack slot of clientSocket in listenThread
    pending,          \* peers waiting in the backlog of the listening socket
    clientsLeft,      \* peers that may still connect
    aborted,          \* the process was terminated (assert, std::terminate)
    conn,             \* TcpConnection objects
    sk,               \* kernel state of the connected sockets
    q,                \* the last evaluation of isActive() on connection 0
    m_port,           \* TcpServer::m_port
    m_connectionHandler,  \* TcpServer::m_connectionHandler (0: empty)
    client,           \* the TcpClient and the result of the last call on it
    wdRunning,        \* Watchdog::m_running
    wdClients,        \* Watchdog::m_clients, with the time left of each timeout
    wdSem,            \* Watchdog::m_semaphore
    wdStartSem,       \* Watchdog::m_startSemaphore
    wdThread,         \* the watchdog thread: [pc, wait, cb]
    wdCall,           \* position of the thread inside start() or stop()
    wdLast,           \* the last call on the watchdog that returned
    wdHist,           \* time and callbacks since start(), as the clients see them
    m_mutex,          \* StateMachine::m_mutex (recursive): [owner, count]
    m_currentState,   \* StateMachine::m_currentState: [type, id]
    m_newState,       \* StateMachine::m_newState
    m_changeStateCounter, \* StateMachine::m_changeStateCounter
    fsmObjects,       \* state objects constructed so far
    fsmStack,         \* the calls each thread is inside, innermost last
    fsmHist,          \* per thread: its last call from outside and what it did
    fsmCrashed        \* the process was stopped by a null dereference

watchdogVars == <<wdRunning, wdClients, wdSem, wdStartSem, wdThread, wdCall,
                  wdLast, wdHist>>

fsmVars == <<m_mutex, m_currentState, m_newState, m_changeStateCounter,
             fsmObjects, fsmStack, fsmHist, fsmCrashed>>

\* The variables of the Watchdog and of the StateMachine.
otherVars == <<watchdogVars, fsmVars>>

vars == <<m_running, m_socket, listenOpen, semConn, semStart, maxConnections,
          handlerKind, m_port, m_connectionHandler, ctrl, lastCall, lastRet,
          listenPc, units, nextUnit, accSocket, pending, clientsLeft, aborted,
          conn, sk, q, client, otherVars>>

serverVars == <<m_running, m_socket, listenOpen, semConn, semStart,
                maxConnections, handlerKind, m_port, m_connectionHandler,
                ctrl, lastCall, lastRet, listenPc, nextUnit, accSocket,
                pending, clientsLeft, aborted>>

networkVars == <<serverVars, units, conn, sk, q, client>>

\* ------------------------------------------------ Watchdog: names, clients
\* The client names in use; std::map keeps them in this order.
WdKeySeq == <<"c1", "c12">>

WdKeys == {WdKeySeq[i] : i \in 1..Len(WdKeySeq)}

\* A std::string_view argument: view is its content, cstr is the C string
\* that starts at data().  They differ when the view is a part of a longer
\* string: the third argument is the first two characters of "c12".
WdViews == { [view |-> "c1", cstr |-> "c1"],
             [view |-> "c12", cstr |-> "c12"],
             [view |-> "c1", cstr |-> "c12"] }

\* m_clients.find(clientName.data()): the key is built from a const char*.
FindKey(v) == v.cstr

\* m_clients.emplace(clientName, ..): the key is built from the view.
EmplaceKey(v) == v.view

\* ClientData of a name that is not in m_clients.
NoWdClient == [reg |-> FALSE, T |-> 0, left |-> 0]

NoWdHist == [elapsed |-> 0, fired |-> [k \in WdKeys |-> 0],
             since |-> [k \in WdKeys |-> 0], due |-> [k \in WdKeys |-> FALSE],
             resets |-> FALSE]

NoWdThread == [pc |-> "none", wait |-> 0, cb |-> "none"]

\* Watchdog::Watchdog(name)
WatchdogAbsent ==
    /\ wdRunning = FALSE
    /\ wdClients = [k \in WdKeys |-> NoWdClient]
    /\ wdSem = 0 /\ wdStartSem = 0
    /\ wdThread = NoWdThread
    /\ wdCall = "idle"
    /\ wdLast = [call |-> "none", ret |-> FALSE]
    /\ wdHist = NoWdHist

\* ---------------------------------------------------------- StateMachine
FsmThreads == 1..MaxThreads

\* The user states: StateA, StateD .. StateG are the states of the tests,
\* StateH is a state whose onEnter() changes the state once more, StateL one
\* whose onLeave() does.
StateTypes == {"StateA", "StateD", "StateE", "StateF", "StateG", "StateH",
               "StateL"}

\* func() of a state: the state that it asks for with changeState<..>().
FuncTarget == [ty \in StateTypes |->
                 CASE ty = "StateD" -> "StateF"
                   [] ty = "StateE" -> "StateD"
                   [] ty = "StateF" -> "StateE"
                   [] ty = "StateG" -> "StateG"
                   [] OTHER -> "none"]

\* onEnter() of a state: empty unless the user state overrides it.
EnterTarget == [ty \in StateTypes |-> IF ty = "StateH" THEN "StateA" ELSE "none"]

\* onLeave() of a state: empty unless the user state overrides it.
LeaveTarget == [ty \in StateTypes |-> IF ty = "StateL" THEN "StateA" ELSE "none"]

\* An empty std::shared_ptr<UserState>.
NoState == [type |-> "none", id |-> 0]

NoFsmHist == [op |-> "none", target |-> "none", prev |-> NoState, made |-> 0,
              log |-> <<>>, cur |-> NoState, done |-> FALSE]

\* StateMachine::StateMachine(name)
FsmAbsent ==
    /\ m_mutex = [owner |-> 0, count |-> 0]
    /\ m_currentState = NoState
    /\ m_newState = NoState
    /\ m_changeStateCounter = 0
    /\ fsmObjects = 0
    /\ fsmStack = [t \in FsmThreads |-> <<>>]
    /\ fsmHist = [t \in FsmThreads |-> NoFsmHist]
    /\ fsmCrashed = FALSE

\* --------------------------------------------------------------- helpers
Min(a, b) == IF a < b THEN a ELSE b

\* The bytes 1, 2, .., n: every byte of a stream is told apart by its value.
Stream(n) == [i \in 1..n |-> i]

NoConn == [m_socket |-> m_cUninitialized, hasParent |-> FALSE, pc |-> "none",
           op |-> "none", size |-> 0, tmo |-> "inf", toWrite |-> 0,
           res |-> "none", bytes |-> <<>>, rcvd |-> <<>>, closes |-> 0,
           again |-> FALSE]

\* A TcpClient that was constructed and not connected; call, ret and ep are
\* the last call on the client, its result and the endpoint it returned.
NoClient == [m_running |-> FALSE, m_connection |-> FALSE, alive |-> TRUE,
             call |-> "none", ret |-> "none", ep |-> EmptyEndpoint]

NoSock == [open |-> FALSE, est |-> FALSE, rx |-> <<>>, peerOut |-> <<>>,
           tx |-> <<>>, peerClosed |-> FALSE, reset |-> FALSE]

NewConn(fd, parent) == [NoConn EXCEPT !.m_socket = fd, !.hasParent = parent,
                                      !.pc = "idle"]

NewSock(n) == [NoSock EXCEPT !.open = TRUE, !.est = TRUE, !.peerOut = Stream(n)]

NoQuery == [asked |-> FALSE, result |-> FALSE, parent |-> FALSE,
            sock |-> m_cUninitialized, running |-> FALSE]

\* The claims look at the results of connection 0; what the calls on the
\* connections of the server return is used by the handler and not kept.
Obs(c, cn) ==
    IF c = 0 THEN cn
    ELSE [cn EXCEPT !.op = "none", !.size = 0, !.tmo = "inf", !.toWrite = 0,
                    !.res = "none", !.bytes = <<>>, !.rcvd = <<>>,
                    !.again = FALSE]

Handed(c, t, b) == IF c = 0 THEN t \o b ELSE t

\* ------------------------------------------------- TcpConnection queries
\* Connection::isActive() of Connection.hpp, the predecessor of TcpConnection.
isActive_ServerRunning(c) ==
    m_running /\ conn[c].m_socket # m_cUninitialized

isActive_ParentToo(c) ==
    /\ conn[c].m_socket # m_cUninitialized
    /\ (~conn[c].hasParent \/ m_running)

isActive(c) == conn[c].m_socket # m_cUninitialized

isParentRunning(c) == conn[c].hasParent /\ m_running

\* ::close(fd) in the kernel: only an open descriptor is released.
SkClose(s, fd) ==
    IF fd \in Fds /\ s[fd].open THEN [s EXCEPT ![fd] = NoSock] ELSE s

\* TcpConnection::close(): ::close() is called only on a handle that is not
\* the sentinel, then m_socket becomes the sentinel; closes counts the calls
\* of ::close() (2 stands for two or more).
Released(cn) ==
    IF cn.m_socket # m_cUninitialized
    THEN [cn EXCEPT !.closes = IF @ < 2 THEN @ + 1 ELSE @] ELSE cn

CloseKeepsSocket(cn) == Released(cn)

CloseConn(cn) == [Released(cn) EXCEPT !.m_socket = m_cUninitialized]

CloseSkOf(s, cn) ==
    IF cn.m_socket # m_cUninitialized THEN SkClose(s, cn.m_socket) ELSE s

CloseSk(c) ==
    IF conn[c].m_socket # m_cUninitialized THEN SkClose(sk, conn[c].m_socket)
    ELSE sk

\* select() > 0 on the connected socket.
Readable(fd) ==
    /\ fd \in Fds
    /\ sk[fd].open
    /\ (sk[fd].rx # <<>> \/ sk[fd].peerClosed \/ sk[fd].reset)

\* ::write() on the connected socket can hand bytes to the peer; if not it
\* fails with EBADF, EPIPE or ECONNRESET.
Writable(fd) ==
    IF fd \in Fds THEN sk[fd].open /\ ~sk[fd].reset /\ ~sk[fd].peerClosed
    ELSE FALSE

\* ------------------------------------------------ TcpConnection::close()
\* close() and the destructor: release the descriptor once, then the sentinel.
ConnClose(c) ==
    /\ conn[c].pc = "idle"
    /\ sk' = CloseSk(c)
    /\ conn' = [conn EXCEPT ![c] = Obs(c, [CloseConn(@) EXCEPT !.op = "close"])]

\* ------------------------------------------------- TcpConnection::read()
\* Entry of read(bytes, size, actualReadSize, timeout): the guards before
\* the polling loop.  isNull is bytes == nullptr.
ReadCall(c, n, tmo, isNull) ==
    /\ conn[c].pc = "idle"
    /\ IF ~isActive(c) THEN
          /\ sk' = CloseSk(c)
          /\ conn' = [conn EXCEPT ![c] = Obs(c, [CloseConn(@) EXCEPT
                        !.op = "read", !.size = n, !.bytes = <<>>,
                        !.again = FALSE, !.res = "eConnectionNotActive"])]
       ELSE IF isNull THEN
          /\ sk' = sk
          /\ conn' = [conn EXCEPT ![c] = Obs(c, [@ EXCEPT
                        !.op = "read", !.size = n, !.bytes = <<>>,
                        !.again = FALSE, !.res = "eInvalidArgument"])]
       ELSE
          /\ sk' = sk
          /\ conn' = [conn EXCEPT ![c].op = "read", ![c].size = n,
                        ![c].tmo = tmo, ![c].bytes = <<>>, ![c].again = FALSE,
                        ![c].res = "pending", ![c].pc = "reading"]

\* What ::read(m_socket, bytes, size) hands over: at most size bytes of what
\* has arrived.
RecvCountAll(n, avail) == avail

RecvCount(n, avail) == Min(n, avail)

\* The value read() returns when ::read() returned 0.
ZeroReadResult == "eClientDisconnected"

\* The connection after timeout.isExpired(): the call returns at once.
TimedOutCloses(cn) == CloseConn(cn)

TimedOut(cn) == cn

\* ::read() or ::write() returned -1 with errno == EAGAIN: "continue".  The
\* call stays in its loop; connection 0 remembers that it happened.
AgainBreaks(c, cn) ==
    [CloseConn(cn) EXCEPT !.pc = "idle", !.res = "eConnectionNotActive",
                          !.toWrite = 0, !.again = (c = 0)]

Again(c, cn) == IF c = 0 THEN [cn EXCEPT !.again = TRUE] ELSE cn

\* select() reports the socket although nothing can be read from it (the
\* data was dropped, or another reader took it): ::read() fails with EAGAIN.
SpuriouslyReadable(fd) ==
    /\ fd \in Fds
    /\ sk[fd].open
    /\ sk[fd].rx = <<>> /\ ~sk[fd].peerClosed /\ ~sk[fd].reset

\* One pass of the polling loop: the loop condition, the expiry check,
\* select() and a single ::read().  A pass in which select() reports nothing
\* changes nothing.
ReadIter(c) ==
    /\ conn[c].pc = "reading"
    /\ LET fd == conn[c].m_socket
           done(cn, r, b) == Obs(c, [cn EXCEPT !.pc = "idle", !.res = r,
                                        !.bytes = b, !.rcvd = @ \o b])
       IN
       IF ~isActive(c) THEN
          /\ sk' = CloseSk(c)
          /\ conn' = [conn EXCEPT ![c] =
                        done(CloseConn(@), "eConnectionNotActive", <<>>)]
       ELSE
          \/ /\ conn[c].tmo = "fin"
             /\ sk' = sk
             /\ conn' = [conn EXCEPT ![c] = done(TimedOut(@), "eTimeout", <<>>)]
          \/ /\ SpuriouslyReadable(fd)
             \* ::read() == -1, errno == EAGAIN: continue
             /\ sk' = sk
             /\ conn' = [conn EXCEPT ![c] = Again(c, @)]
          \/ /\ Readable(fd)
             /\ LET k == RecvCount(conn[c].size, Len(sk[fd].rx)) IN
                IF sk[fd].reset THEN
                   \* ::read() == -1, errno # EAGAIN: break, close()
                   /\ sk' = CloseSk(c)
                   /\ conn' = [conn EXCEPT ![c] =
                                 done(CloseConn(@), "eConnectionNotActive", <<>>)]
                ELSE IF k = 0 THEN
                   \* ::read() == 0
                   /\ sk' = CloseSk(c)
                   /\ conn' = [conn EXCEPT ![c] =
                                 done(CloseConn(@), ZeroReadResult, <<>>)]
                ELSE
                   /\ sk' = [sk EXCEPT ![fd].rx =
                                 SubSeq(@, k + 1, Len(@))]
                   /\ conn' = [conn EXCEPT ![c] =
                                 done(@, "eOk", SubSeq(sk[fd].rx, 1, k))]

\* ------------------------------------------------ TcpConnection::write()
\* Entry of write(bytes, size); the buffer holds the bytes 1..size.  tx is
\* what the peer is handed during this call.
WriteCall(c, n, isNull) ==
    /\ conn[c].pc = "idle"
    /\ IF ~isActive(c) THEN
          /\ sk' = CloseSk(c)
          /\ conn' = [conn EXCEPT ![c] = Obs(c, [CloseConn(@) EXCEPT
                        !.op = "write", !.size = n, !.again = FALSE,
                        !.res = "eConnectionNotActive"])]
       ELSE IF isNull THEN
          /\ sk' = sk
          /\ conn' = [conn EXCEPT ![c] = Obs(c, [@ EXCEPT
                        !.op = "write", !.size = n, !.again = FALSE,
                        !.res = "eInvalidArgument"])]
       ELSE IF n = 0 THEN
          /\ sk' = IF conn[c].m_socket \in Fds
                   THEN [sk EXCEPT ![conn[c].m_socket].tx = <<>>] ELSE sk
          /\ conn' = [conn EXCEPT ![c] = Obs(c, [@ EXCEPT
                        !.op = "write", !.size = n, !.again = FALSE,
                        !.res = "eOk"])]
       ELSE
          /\ sk' = IF conn[c].m_socket \in Fds
                   THEN [sk EXCEPT ![conn[c].m_socket].tx = <<>>] ELSE sk
          /\ conn' = [conn EXCEPT ![c].op = "write", ![c].size = n,
                        ![c].toWrite = n, ![c].res = "pending",
                        ![c].again = FALSE, ![c].pc = "writing"]

\* The part of the buffer one ::write() call offers: the code passes
\* (bytes, size) on every pass of the loop.
SendOffer(n, left) == Stream(n)

\* One pass of the loop "while (toWrite != 0)": a single ::write().
WriteIter(c) ==
    /\ conn[c].pc = "writing"
    /\ LET fd == conn[c].m_socket
           offer == SendOffer(conn[c].size, conn[c].toWrite)
           done(cn, r) == Obs(c, [cn EXCEPT !.pc = "idle", !.res = r,
                                           !.toWrite = 0])
       IN
       \/ \* ::write() == -1, errno # EAGAIN: break, then return eOk
          /\ ~Writable(fd)
          /\ sk' = sk
          /\ conn' = [conn EXCEPT ![c] = done(@, "eOk")]
       \/ \* ::write() == -1, errno == EAGAIN: continue
          /\ Writable(fd)
          /\ sk' = sk
          /\ conn' = [conn EXCEPT ![c] = Again(c, @)]
       \/ \* ::write() == 0
          /\ Writable(fd)
          /\ sk' = sk
          /\ conn' = [conn EXCEPT ![c] = done(@, "eWriteError")]
       \/ \* ::write() accepted k bytes, 1 <= k <= size
          /\ Writable(fd)
          /\ \E k \in 1..Min(Len(offer), MaxPeerRx - Len(sk[fd].tx)) :
                LET left == (conn[c].toWrite - k) % SizeMod IN
                /\ sk' = [sk EXCEPT ![fd].tx = Handed(c, @, SubSeq(offer, 1, k))]
                /\ conn' = [conn EXCEPT ![c] =
                              IF left = 0 THEN done(@, "eOk")
                              ELSE [@ EXCEPT !.toWrite = left]]

\* ------------------------------------------------------------- the peer
\* The peer hands k more bytes of its stream to the network.
PeerSend(fd, k) ==
    /\ sk[fd].est /\ sk[fd].open /\ ~sk[fd].peerClosed /\ ~sk[fd].reset
    /\ k \in 1..Len(sk[fd].peerOut)
    /\ sk' = [sk EXCEPT ![fd].rx = @ \o SubSeq(sk[fd].peerOut, 1, k),
                        ![fd].peerOut = SubSeq(@, k + 1, Len(@))]

\* The peer closes its side (FIN); what it has not sent is never sent.
PeerClose(fd) ==
    /\ sk[fd].est /\ ~sk[fd].peerClosed /\ ~sk[fd].reset
    /\ sk' = [sk EXCEPT ![fd].peerClosed = TRUE, ![fd].peerOut = <<>>]

\* The connection is reset (RST): ::read() and ::write() fail from now on.
PeerReset(fd) ==
    /\ sk[fd].est /\ sk[fd].open /\ ~sk[fd].reset
    /\ sk' = [sk EXCEPT ![fd].reset = TRUE, ![fd].peerOut = <<>>,
                        ![fd].rx = <<>>]

\* ------------------------------------------------ ConnSpec: one connection
\* Connection 0 on descriptor 1, built by TcpClient::connect() without a
\* parent flag or by the server with a reference to m_running.  Of the
\* server only m_running takes part: stop() may set it to false.
ServerAbsent ==
    /\ m_socket = m_cUninitialized /\ listenOpen = FALSE
    /\ semConn = 0 /\ semStart = 0 /\ maxConnections = 1
    /\ handlerKind = "any" /\ ctrl = "idle" /\ lastCall = "none"
    /\ lastRet = "none" /\ listenPc = "none"
    /\ units = [u \in UnitIds |-> [pc |-> "unused", rel |-> 0]]
    /\ nextUnit = 1 /\ accSocket = m_cUninitialized /\ pending = 0
    /\ clientsLeft = 0 /\ aborted = FALSE /\ q = NoQuery
    /\ m_port = m_cUninitialized /\ m_connectionHandler = 0
    /\ client = NoClient

ConnInit ==
    /\ ServerAbsent /\ WatchdogAbsent /\ FsmAbsent
    /\ m_running \in BOOLEAN
    /\ conn = [c \in ConnIds |-> IF c = 0 THEN NewConn(1, m_running) ELSE NoConn]
    /\ \E n \in 0..MaxStream :
          sk = [fd \in Fds |-> IF fd = 1 THEN NewSock(n) ELSE NoSock]

UserRead ==
    /\ \E n \in 0..MaxReadSize, tmo \in {"inf", "fin"}, isNull \in BOOLEAN :
          ReadCall(0, n, tmo, isNull)
    /\ UNCHANGED <<serverVars, units, q, client, otherVars>>

UserReadIter == ReadIter(0) /\ UNCHANGED <<serverVars, units, q, client, otherVars>>

UserWrite ==
    /\ \E n \in 0..MaxWriteSize, isNull \in BOOLEAN : WriteCall(0, n, isNull)
    /\ UNCHANGED <<serverVars, units, q, client, otherVars>>

UserWriteIter == WriteIter(0) /\ UNCHANGED <<serverVars, units, q, client, otherVars>>

UserClose == ConnClose(0) /\ UNCHANGED <<serverVars, units, q, client, otherVars>>

\* The owner evaluates connection.isParentRunning() and connection.isActive().
UserIsActive ==
    /\ conn[0].pc = "idle"
    /\ q' = [asked |-> TRUE, result |-> isActive(0),
             parent |-> isParentRunning(0), sock |-> conn[0].m_socket,
             running |-> m_running]
    /\ UNCHANGED <<serverVars, units, conn, sk, client, otherVars>>

\* TcpServer::stop() sets m_running to false.
ParentStop ==
    /\ conn[0].hasParent /\ m_running
    /\ m_running' = FALSE
    /\ UNCHANGED <<m_socket, listenOpen, semConn, semStart, maxConnections,
                   handlerKind, m_port, m_connectionHandler, ctrl, lastCall, lastRet, listenPc, units,
                   nextUnit, accSocket, pending, clientsLeft, aborted, conn,
                   sk, q, client,
                   otherVars>>

ConnPeerSend ==
    /\ \E k \in 1..MaxStream : PeerSend(1, k)
    /\ UNCHANGED <<serverVars, units, q, client, conn, otherVars>>

ConnPeerClose == PeerClose(1) /\ UNCHANGED <<serverVars, units, q, client, conn, otherVars>>

ConnPeerReset == PeerReset(1) /\ UNCHANGED <<serverVars, units, q, client, conn, otherVars>>

ConnNext ==
    \/ UserRead
    \/ UserReadIter
    \/ UserWrite
    \/ UserWriteIter
    \/ UserClose
    \/ UserIsActive
    \/ ParentStop
    \/ ConnPeerSend
    \/ ConnPeerClose
    \/ ConnPeerReset

ConnSpec == ConnInit /\ [][ConnNext]_vars

\* The thread that called read() or write() keeps running.
FairConnSpec == ConnSpec /\ WF_vars(UserReadIter) /\ WF_vars(UserWriteIter)

\* ================================================= ClientSpec: TcpClient
\* One TcpClient; connection 0 is the object m_connection points to.  The
\* descriptors of the process are Fds; socket() hands out the lowest free one.
ClientInit ==
    /\ ServerAbsent /\ WatchdogAbsent /\ FsmAbsent
    /\ m_running = FALSE
    /\ conn = [c \in ConnIds |-> NoConn]
    /\ sk = [fd \in Fds |-> NoSock]

FreeFds == {fd \in Fds : ~sk[fd].open}

LowestFree == CHOOSE fd \in FreeFds : \A g \in FreeFds : fd <= g

\* The sizes the client passes to read() and write(), and the number of bytes
\* its peer has to send; what the bytes are is the matter of ConnSpec.
CliSizes == {0, 1}

\* A socket after socket() and before ::connect().
FreshSock == [NoSock EXCEPT !.open = TRUE]

\* No call on the client or on its connection is in progress.
ClientIdle == client.alive /\ conn[0].pc \in {"none", "idle"}

Returned(call, ret) == [client EXCEPT !.call = call, !.ret = ret]

\* "if (m_running)" at the head of connect().
ConnectAlways(cl) == FALSE

ConnectRefused(cl) == cl.m_running

\* "if (!m_running)" at the head of read(), write() and the endpoint getters.
NoConnectionObject(cl) == ~cl.m_connection

NotConnected(cl) == ~cl.m_running

\* TcpClient::connect(address, port); badAddress: addressToIp() returns "".
CliConnect ==
    /\ ClientIdle
    /\ IF ConnectRefused(client) THEN
          /\ client' = Returned("connect", "eClientRunning")
          /\ UNCHANGED <<conn, sk>>
       ELSE
          \/ \* socket() == -1
             /\ client' = Returned("connect", "eSocketError")
             /\ UNCHANGED <<conn, sk>>
          \/ /\ FreeFds # {}
             /\ LET fd == LowestFree IN
                \/ \* ip.empty(): returns with clientSocket left open
                   /\ client' = Returned("connect", "eInvalidArgument")
                   /\ sk' = [sk EXCEPT ![fd] = FreshSock]
                   /\ conn' = conn
                \/ \* ::connect() != 0: close(clientSocket)
                   /\ client' = Returned("connect", "eConnectError")
                   /\ sk' = SkClose([sk EXCEPT ![fd] = FreshSock], fd)
                   /\ conn' = conn
                \/ \* the new TcpConnection replaces the one m_connection held
                   /\ \E n \in CliSizes :
                         sk' = [CloseSkOf(sk, conn[0]) EXCEPT ![fd] = NewSock(n)]
                   /\ conn' = [conn EXCEPT ![0] = NewConn(fd, FALSE)]
                   /\ client' = [Returned("connect", "eOk") EXCEPT
                                    !.m_running = TRUE, !.m_connection = TRUE]
    /\ UNCHANGED <<serverVars, units, q, otherVars>>

\* TcpClient::disconnect()
CliDisconnect ==
    /\ ClientIdle
    /\ IF client.m_running THEN
          /\ client' = [Returned("disconnect", "void") EXCEPT !.m_running = FALSE]
          /\ sk' = CloseSk(0)
          /\ conn' = [conn EXCEPT ![0] = [CloseConn(@) EXCEPT !.op = "close"]]
       ELSE
          /\ client' = Returned("disconnect", "void")
          /\ UNCHANGED <<conn, sk>>
    /\ UNCHANGED <<serverVars, units, q, otherVars>>

\* TcpClient::~TcpClient(): disconnect(), then the destructor of m_connection
\* calls TcpConnection::close() once more.
CliDestroy ==
    /\ ClientIdle
    /\ LET cn1 == IF client.m_running THEN CloseConn(conn[0]) ELSE conn[0]
           sk1 == IF client.m_running THEN CloseSkOf(sk, conn[0]) ELSE sk
       IN
       IF client.m_connection THEN
          /\ conn' = [conn EXCEPT ![0] = [CloseConn(cn1) EXCEPT !.op = "close"]]
          /\ sk' = CloseSkOf(sk1, cn1)
       ELSE
          /\ conn' = [conn EXCEPT ![0] = cn1]
          /\ sk' = sk1
    /\ client' = [Returned("destroy", "void") EXCEPT
                     !.m_running = FALSE, !.alive = FALSE]
    /\ UNCHANGED <<serverVars, units, q, otherVars>>

\* TcpClient::TcpClient(address, port): another client is constructed.
CliCreate ==
    /\ ~client.alive
    /\ client' = NoClient
    /\ conn' = [conn EXCEPT ![0] = NoConn]
    /\ UNCHANGED <<serverVars, units, q, sk, otherVars>>

\* TcpClient::read(bytes, size, timeout) and read(bytes, size, timeout,
\* actualReadSize).
CliRead ==
    /\ ClientIdle
    /\ IF NotConnected(client) THEN
          /\ client' = Returned("read", "eClientDisconnected")
          /\ UNCHANGED <<conn, sk>>
       ELSE
          /\ client' = Returned("read", "delegated")
          /\ \E n \in CliSizes, tmo \in {"inf", "fin"}, isNull \in BOOLEAN :
                ReadCall(0, n, tmo, isNull)
    /\ UNCHANGED <<serverVars, units, q, otherVars>>

CliReadIter ==
    /\ client.alive
    /\ ReadIter(0)
    /\ UNCHANGED <<serverVars, units, q, client, otherVars>>

\* TcpClient::write(bytes) and write(bytes, size).
CliWrite ==
    /\ ClientIdle
    /\ IF NotConnected(client) THEN
          /\ client' = Returned("write", "eClientDisconnected")
          /\ UNCHANGED <<conn, sk>>
       ELSE
          /\ client' = Returned("write", "delegated")
          /\ \E n \in CliSizes, isNull \in BOOLEAN : WriteCall(0, n, isNull)
    /\ UNCHANGED <<serverVars, units, q, otherVars>>

CliWriteIter ==
    /\ client.alive
    /\ WriteIter(0)
    /\ UNCHANGED <<serverVars, units, q, client, otherVars>>

\* TcpClient::localEndpoint() and remoteEndpoint()
CliEndpoint ==
    /\ ClientIdle
    /\ \E which \in {"localEndpoint", "remoteEndpoint"} :
          client' = [Returned(which, "endpoint") EXCEPT !.ep =
                        IF NotConnected(client) THEN EmptyEndpoint
                        ELSE IF which = "localEndpoint" THEN LocalEndpoint
                        ELSE RemoteEndpoint]
    /\ UNCHANGED <<serverVars, units, q, conn, sk, otherVars>>

CliPeerSend ==
    /\ \E fd \in Fds, k \in CliSizes \ {0} : PeerSend(fd, k)
    /\ UNCHANGED <<serverVars, units, q, client, conn, otherVars>>

CliPeerClose ==
    /\ \E fd \in Fds : PeerClose(fd)
    /\ UNCHANGED <<serverVars, units, q, client, conn, otherVars>>

CliPeerReset ==
    /\ \E fd \in Fds : PeerReset(fd)
    /\ UNCHANGED <<serverVars, units, q, client, conn, otherVars>>

ClientNext ==
    \/ CliConnect
    \/ CliDisconnect
    \/ CliDestroy
    \/ CliCreate
    \/ CliRead
    \/ CliReadIter
    \/ CliWrite
    \/ CliWriteIter
    \/ CliEndpoint
    \/ CliPeerSend
    \/ CliPeerClose
    \/ CliPeerReset

ClientSpec == ClientInit /\ [][ClientNext]_vars

\* ======================================================= Spec: the server
Init ==
    /\ m_running = FALSE /\ m_socket = m_cUninitialized /\ listenOpen = FALSE
    /\ maxConnections \in 1..MaxN
    /\ semConn = maxConnections /\ semStart = 0
    /\ handlerKind \in {"coop", "any"}
    /\ ctrl = "idle" /\ lastCall = "none" /\ lastRet = "none"
    /\ listenPc = "none"
    /\ units = [u \in UnitIds |-> [pc |-> "unused", rel |-> 0]]
    /\ nextUnit = 1 /\ accSocket = m_cUninitialized
    /\ pending = 0 /\ clientsLeft = MaxUnits
    /\ aborted = FALSE /\ q = NoQuery
    /\ m_port = cPort /\ m_connectionHandler = 1
    /\ client = NoClient /\ WatchdogAbsent /\ FsmAbsent
    /\ conn = [c \in ConnIds |-> NoConn]
    /\ sk = [fd \in Fds |-> NoSock]

\* ------------------------------------------------------ TcpServer::start()
\* The port start(port) works with: the argument unless it is the sentinel.
StoredPort(port) == IF port # m_cUninitialized THEN port ELSE m_port

\* m_port after a call that found the server running: the check of
\* m_running comes first and returns.
PortStoredWhenRunning(port) == StoredPort(port)

PortWhenRunning(port) == m_port

\* start(port) up to the wait on m_startSemaphore.
StartCall(port) ==
    /\ IF m_running THEN
          /\ lastCall' = "start" /\ lastRet' = "eServerRunning"
          /\ m_port' = PortWhenRunning(port)
          /\ UNCHANGED <<m_socket, listenOpen, listenPc, ctrl, aborted>>
       ELSE IF StoredPort(port) = m_cUninitialized THEN
          /\ lastCall' = "start" /\ lastRet' = "eInvalidArgument"
          /\ m_port' = StoredPort(port)
          /\ UNCHANGED <<m_socket, listenOpen, listenPc, ctrl, aborted>>
       ELSE IF m_socket # m_cUninitialized THEN
          \* assert(m_socket == -1)
          /\ aborted' = TRUE
          /\ m_port' = StoredPort(port)
          /\ UNCHANGED <<m_socket, listenOpen, listenPc, ctrl, lastCall, lastRet>>
       ELSE
          /\ m_port' = StoredPort(port)
          /\ \/ \* socket() == -1
                /\ lastCall' = "start" /\ lastRet' = "eSocketError"
                /\ UNCHANGED <<m_socket, listenOpen, listenPc, ctrl, aborted>>
             \/ \* bind() == -1: closeSocket()
                /\ lastCall' = "start" /\ lastRet' = "eBindError"
                /\ UNCHANGED <<m_socket, listenOpen, listenPc, ctrl, aborted>>
             \/ \* m_listenThread.start() fails: closeSocket(), return error
                /\ lastCall' = "start" /\ lastRet' = "threadError"
                /\ UNCHANGED <<m_socket, listenOpen, listenPc, ctrl, aborted>>
             \/ \* socket(), bind(), listen(), thread started
                /\ listenPc = "none"
                /\ m_socket' = ListenFd /\ listenOpen' = TRUE
                /\ listenPc' = "spawned" /\ ctrl' = "startWait"
                /\ UNCHANGED <<lastCall, lastRet, aborted>>
    /\ UNCHANGED <<m_running, semConn, semStart, maxConnections, handlerKind,
                   m_connectionHandler, units, nextUnit, accSocket, pending,
                   clientsLeft, conn, sk, q, client,
                   otherVars>>

\* The thread that owns the server is between two calls.
CallerIdle == ~aborted /\ ctrl = "idle"

\* start(): start(m_cUninitialized).
Start ==
    /\ CallerIdle
    /\ StartCall(m_cUninitialized)

\* start(port) with a port of the caller.
StartPort ==
    /\ CallerIdle
    /\ \E port \in StartPorts : StartCall(port)

\* m_startSemaphore.timedWait(cStartupTimeout): taken, or timed out.
StartWait ==
    /\ ~aborted /\ ctrl = "startWait"
    /\ IF semStart > 0 THEN
          /\ semStart' = semStart - 1 /\ ctrl' = "startSet"
          /\ UNCHANGED <<lastCall, lastRet>>
       ELSE
          /\ ctrl' = "idle" /\ lastCall' = "start" /\ lastRet' = "eTimeout"
          /\ UNCHANGED semStart
    /\ UNCHANGED <<m_running, m_socket, listenOpen, semConn, maxConnections,
                   handlerKind, m_port, m_connectionHandler, listenPc, units, nextUnit, accSocket,
                   pending, clientsLeft, aborted, conn, sk, q, client,
                   otherVars>>

\* m_running = true; return Error::eOk.
StartSet ==
    /\ ~aborted /\ ctrl = "startSet"
    /\ m_running' = TRUE
    /\ ctrl' = "idle" /\ lastCall' = "start" /\ lastRet' = "eOk"
    /\ UNCHANGED <<m_socket, listenOpen, semConn, semStart, maxConnections,
                   handlerKind, m_port, m_connectionHandler, listenPc, units, nextUnit, accSocket,
                   pending, clientsLeft, aborted, conn, sk, q, client,
                   otherVars>>

\* ------------------------------------------------------- TcpServer::stop()
\* m_running = false.
Stop ==
    /\ ~aborted /\ ctrl = "idle"
    /\ m_running' = FALSE
    /\ ctrl' = "stopJoin"
    /\ UNCHANGED <<m_socket, listenOpen, semConn, semStart, maxConnections,
                   handlerKind, m_port, m_connectionHandler, lastCall, lastRet, listenPc, units,
                   nextUnit, accSocket, pending, clientsLeft, aborted, conn,
                   sk, q, client,
                   otherVars>>

\* m_listenThread.join(): returns once the thread has ended, or at once when
\* no thread was started.
ListenJoinable == listenPc \in {"none", "done"}

StopJoin ==
    /\ ~aborted /\ ctrl = "stopJoin"
    /\ ListenJoinable
    /\ listenPc' = IF listenPc = "done" THEN "none" ELSE listenPc
    /\ ctrl' = "stopClear"
    /\ UNCHANGED <<m_running, m_socket, listenOpen, semConn, semStart,
                   maxConnections, handlerKind, m_port, m_connectionHandler, lastCall, lastRet, 
                   units, nextUnit, accSocket, pending, clientsLeft, aborted,
                   conn, sk, q, client,
                   otherVars>>

\* m_connectionThreads.clear(): every thread object is destroyed, which
\* joins its thread.
UnitsJoinableNoWait == TRUE

UnitsJoinable == \A u \in UnitIds : units[u].pc \notin {"spawned", "run"}

StopClear ==
    /\ ~aborted /\ ctrl = "stopClear"
    /\ UnitsJoinable
    /\ units' = [u \in UnitIds |->
                   IF units[u].pc = "done"
                   THEN [units[u] EXCEPT !.pc = "joined"] ELSE units[u]]
    /\ ctrl' = "idle" /\ lastCall' = "stop" /\ lastRet' = "void"
    /\ UNCHANGED <<m_running, m_socket, listenOpen, semConn, semStart,
                   maxConnections, handlerKind, m_port, m_connectionHandler, listenPc, nextUnit,
                   accSocket, pending, clientsLeft, aborted, conn, sk, q, client,
                   otherVars>>

\* ------------------------------------------------ TcpServer::listenThread()
\* m_running = true; m_startSemaphore.signal().
ListenBegin ==
    /\ ~aborted /\ listenPc = "spawned"
    /\ m_running' = TRUE
    /\ semStart' = semStart + 1
    /\ listenPc' = "outer"
    /\ UNCHANGED <<m_socket, listenOpen, semConn, maxConnections, handlerKind, m_port, m_connectionHandler,
                   ctrl, lastCall, lastRet, units, nextUnit, accSocket,
                   pending, clientsLeft, aborted, conn, sk, q, client,
                   otherVars>>

\* m_socket after closeSocket().
SocketKept == m_socket

SocketAfterClose == m_cUninitialized

\* The outer "while (m_running)"; after the loop closeSocket() and the end
\* of the thread.
ListenOuter ==
    /\ ~aborted /\ listenPc = "outer"
    /\ IF m_running THEN
          /\ listenPc' = "semwait"
          /\ UNCHANGED <<m_socket, listenOpen, pending>>
       ELSE
          /\ listenPc' = "done"
          /\ m_socket' = SocketAfterClose
          /\ listenOpen' = IF m_socket = ListenFd THEN FALSE ELSE listenOpen
          /\ pending' = IF m_socket = ListenFd THEN 0 ELSE pending
    /\ UNCHANGED <<m_running, semConn, semStart, maxConnections, handlerKind, m_port, m_connectionHandler,
                   ctrl, lastCall, lastRet, units, nextUnit, accSocket,
                   clientsLeft, aborted, conn, sk, q, client,
                   otherVars>>

\* m_connectionsSemaphore.timedWait(cTimeout): a slot is taken, or the wait
\* times out and the outer loop continues.
ListenSemWaitInverted ==
    /\ ~aborted /\ listenPc = "semwait"
    /\ IF semConn > 0 THEN listenPc' = "outer" /\ semConn' = semConn - 1
       ELSE listenPc' = "inner" /\ semConn' = semConn
    /\ UNCHANGED <<m_running, m_socket, listenOpen, semStart, maxConnections,
                   handlerKind, m_port, m_connectionHandler, ctrl, lastCall, lastRet, units,
                   nextUnit, accSocket, pending, clientsLeft, aborted, conn,
                   sk, q, client,
                   otherVars>>

ListenSemWait ==
    /\ ~aborted /\ listenPc = "semwait"
    /\ IF semConn > 0 THEN listenPc' = "inner" /\ semConn' = semConn - 1
       ELSE listenPc' = "outer" /\ semConn' = semConn
    /\ UNCHANGED <<m_running, m_socket, listenOpen, semStart, maxConnections,
                   handlerKind, m_port, m_connectionHandler, ctrl, lastCall, lastRet, units,
                   nextUnit, accSocket, pending, clientsLeft, aborted, conn,
                   sk, q, client,
                   otherVars>>

\* The inner "while (m_running)".
ListenInner ==
    /\ ~aborted /\ listenPc = "inner"
    /\ listenPc' = IF m_running THEN "select" ELSE "outer"
    /\ UNCHANGED <<m_running, m_socket, listenOpen, semConn, semStart,
                   maxConnections, handlerKind, m_port, m_connectionHandler, ctrl, lastCall, lastRet,
                   units, nextUnit, accSocket, pending, clientsLeft,
                   aborted, conn, sk, q, client,
                   otherVars>>

\* select() on the listening socket; when a peer waits: accept4(), the new
\* connection thread is put into m_connectionThreads, break.
ListenSelect ==
    /\ ~aborted /\ listenPc = "select"
    /\ IF m_socket = ListenFd /\ listenOpen /\ pending > 0 THEN
          /\ nextUnit \in UnitIds
          /\ sk' = [sk EXCEPT ![nextUnit] = NewSock(0)]
          /\ accSocket' = nextUnit
          /\ units' = [units EXCEPT ![nextUnit].pc = "spawned"]
          /\ nextUnit' = nextUnit + 1
          /\ pending' = pending - 1
          /\ listenPc' = "outer"
       ELSE
          /\ listenPc' = "inner"
          /\ UNCHANGED <<sk, accSocket, units, nextUnit, pending>>
    /\ UNCHANGED <<m_running, m_socket, listenOpen, semConn, semStart,
                   maxConnections, handlerKind, m_port, m_connectionHandler, ctrl, lastCall, lastRet,
                   clientsLeft, aborted, conn, q, client,
                   otherVars>>

\* ------------------------------------------------- the connection threads
\* The lambda of the connection thread builds the TcpConnection from
\* clientSocket, which it captured by reference: it reads the stack slot of
\* the listening thread as it is now (a later accept4() may have written to
\* it); once listenThread() has returned its frame is gone and the slot may
\* hold anything.
UnitBegin(u) ==
    /\ ~aborted /\ units[u].pc = "spawned"
    /\ \E fd \in {accSocket} \cup
                 (IF listenPc \in {"done", "none"} THEN {BadFd} ELSE {}) :
          conn' = [conn EXCEPT ![u] = NewConn(fd, TRUE)]
    /\ IF m_connectionHandler = 0 THEN
          \* calling the empty m_connectionHandler throws
          units' = [units EXCEPT ![u].pc = "failed"] /\ aborted' = TRUE
       ELSE
          units' = [units EXCEPT ![u].pc = "run"] /\ aborted' = aborted
    /\ UNCHANGED <<m_running, m_socket, listenOpen, semConn, semStart,
                   maxConnections, handlerKind, m_port, m_connectionHandler,
                   ctrl, lastCall, lastRet, listenPc, nextUnit, accSocket,
                   pending, clientsLeft, sk, q, client,
                   otherVars>>

\* A handler written like those of the tests calls the connection only
\* inside "while (connection.isParentRunning() && connection.isActive())".
HandlerMay(u) ==
    handlerKind = "any" \/ (isParentRunning(u) /\ isActive(u))

HandlerRead(u) ==
    /\ ~aborted /\ units[u].pc = "run" /\ HandlerMay(u)
    /\ \E tmo \in {"inf", "fin"} :
          /\ handlerKind = "coop" => tmo = "fin"
          /\ ReadCall(u, 1, tmo, FALSE)
    /\ UNCHANGED <<serverVars, units, q, client, otherVars>>

HandlerReadIter(u) ==
    /\ ~aborted /\ units[u].pc = "run"
    /\ ReadIter(u)
    /\ UNCHANGED <<serverVars, units, q, client, otherVars>>

HandlerWrite(u) ==
    /\ ~aborted /\ units[u].pc = "run" /\ HandlerMay(u)
    /\ WriteCall(u, 1, FALSE)
    /\ UNCHANGED <<serverVars, units, q, client, otherVars>>

HandlerWriteIter(u) ==
    /\ ~aborted /\ units[u].pc = "run"
    /\ WriteIter(u)
    /\ UNCHANGED <<serverVars, units, q, client, otherVars>>

HandlerClose(u) ==
    /\ ~aborted /\ units[u].pc = "run" /\ HandlerMay(u)
    /\ ConnClose(u)
    /\ UNCHANGED <<serverVars, units, q, client, otherVars>>

\* connectionThread() after the handler has returned: the connection is
\* destroyed and m_connectionsSemaphore.signal() gives the slot back.
ReturnFromHandler(u) ==
    /\ sk' = CloseSk(u)
    /\ conn' = [conn EXCEPT ![u] = [CloseConn(@) EXCEPT !.pc = "dead"]]
    /\ semConn' = semConn + 1
    /\ units' = [units EXCEPT ![u] = [pc |-> "done", rel |-> @.rel + 1]]
    /\ UNCHANGED <<m_running, m_socket, listenOpen, semStart, maxConnections,
                   handlerKind, m_port, m_connectionHandler, ctrl, lastCall, lastRet, listenPc,
                   nextUnit, accSocket, pending, clientsLeft, aborted, q, client,
                   otherVars>>

\* The loop condition of the handler is false: the handler returns.
HandlerExit(u) ==
    /\ ~aborted /\ units[u].pc = "run" /\ conn[u].pc = "idle"
    /\ ~(isParentRunning(u) /\ isActive(u))
    /\ ReturnFromHandler(u)

\* The handler leaves its loop on its own (break on an error, or done).
HandlerBreak(u) ==
    /\ ~aborted /\ units[u].pc = "run" /\ conn[u].pc = "idle"
    /\ isParentRunning(u) /\ isActive(u)
    /\ ReturnFromHandler(u)

\* The handler throws: nothing catches the exception in the thread, the
\* statements after m_connectionHandler() are not executed and the process
\* is terminated.
HandlerThrow(u) ==
    /\ ~aborted /\ units[u].pc = "run" /\ conn[u].pc = "idle"
    /\ handlerKind = "any"
    /\ units' = [units EXCEPT ![u].pc = "failed"]
    /\ aborted' = TRUE
    /\ UNCHANGED <<m_running, m_socket, listenOpen, semConn, semStart,
                   maxConnections, handlerKind, m_port, m_connectionHandler, ctrl, lastCall, lastRet,
                   listenPc, nextUnit, accSocket, pending, clientsLeft,
                   conn, sk, q, client,
                   otherVars>>

\* ------------------------------------------------------------- the peers
\* A peer connects: it waits in the backlog of the listening socket.  The
\* peers of the server stay silent once connected; what a connection does
\* with the bytes and the close of its peer is the subject of ConnSpec.
ClientConnect ==
    /\ ~aborted /\ listenOpen /\ clientsLeft > 0
    /\ pending' = pending + 1
    /\ clientsLeft' = clientsLeft - 1
    /\ UNCHANGED <<m_running, m_socket, listenOpen, semConn, semStart,
                   maxConnections, handlerKind, m_port, m_connectionHandler, ctrl, lastCall, lastRet,
                   listenPc, units, nextUnit, accSocket, aborted,
                   conn, sk, q, client,
                   otherVars>>

Next ==
    \/ Start
    \/ StartWait
    \/ StartSet
    \/ Stop
    \/ StopJoin
    \/ StopClear
    \/ ListenBegin
    \/ ListenOuter
    \/ ListenSemWait
    \/ ListenInner
    \/ ListenSelect
    \/ ClientConnect
    \/ \E u \in UnitIds : UnitBegin(u)
    \/ \E u \in UnitIds : HandlerRead(u)
    \/ \E u \in UnitIds : HandlerReadIter(u)
    \/ \E u \in UnitIds : HandlerWrite(u)
    \/ \E u \in UnitIds : HandlerWriteIter(u)
    \/ \E u \in UnitIds : HandlerClose(u)
    \/ \E u \in UnitIds : HandlerExit(u)
    \/ \E u \in UnitIds : HandlerBreak(u)
    \/ \E u \in UnitIds : HandlerThrow(u)

Spec == Init /\ [][Next]_vars

\* The scheduler runs every thread that can take a step; peers and the
\* callers of start() and stop() are under no obligation.
Fairness ==
    /\ WF_vars(StartWait) /\ WF_vars(StartSet)
    /\ WF_vars(StopJoin) /\ WF_vars(StopClear)
    /\ WF_vars(ListenBegin) /\ WF_vars(ListenOuter) /\ WF_vars(ListenSemWait)
    /\ WF_vars(ListenInner) /\ WF_vars(ListenSelect)
    /\ \A u \in UnitIds :
          /\ WF_vars(UnitBegin(u))
          /\ WF_vars(HandlerReadIter(u))
          /\ WF_vars(HandlerWriteIter(u))
          /\ WF_vars(HandlerExit(u))

FairSpec == Spec /\ Fairness

\* ============================================ ApiSpec: the calls on a server
\* The server constructed with any port and without a handler, then start(),
\* start(port), stop() and setConnectionHandler() in any order, with one
\* peer that may connect.
ApiInit ==
    /\ m_running = FALSE /\ m_socket = m_cUninitialized /\ listenOpen = FALSE
    /\ maxConnections = 1 /\ semConn = maxConnections /\ semStart = 0
    /\ handlerKind \in {"coop", "any"}
    /\ ctrl = "idle" /\ lastCall = "none" /\ lastRet = "none"
    /\ listenPc = "none"
    /\ units = [u \in UnitIds |-> [pc |-> "unused", rel |-> 0]]
    /\ nextUnit = 1 /\ accSocket = m_cUninitialized
    /\ pending = 0 /\ clientsLeft = 1
    /\ aborted = FALSE /\ q = NoQuery
    /\ m_port \in CtorPorts /\ m_connectionHandler = 0
    /\ client = NoClient /\ WatchdogAbsent /\ FsmAbsent
    /\ conn = [c \in ConnIds |-> NoConn]
    /\ sk = [fd \in Fds |-> NoSock]

\* setConnectionHandler(connectionHandler); the handlers are told apart by
\* a number.
Handlers == {1, 2}

SetHandler(h) ==
    /\ ~aborted /\ ctrl = "idle"
    /\ lastCall' = "setConnectionHandler"
    /\ IF m_running THEN
          /\ lastRet' = "false"
          /\ UNCHANGED m_connectionHandler
       ELSE
          /\ lastRet' = "true"
          /\ m_connectionHandler' = h
    /\ UNCHANGED <<m_running, m_socket, listenOpen, semConn, semStart,
                   maxConnections, handlerKind, m_port, ctrl, listenPc,
                   units, nextUnit, accSocket, pending, clientsLeft,
                   aborted, conn, sk, q, client,
                   otherVars>>

ApiNext ==
    \/ Next
    \/ StartPort
    \/ \E h \in Handlers : SetHandler(h)

ApiSpec == ApiInit /\ [][ApiNext]_vars

\* ===================================================== WdSpec: Watchdog
\* Time is counted in ticks.  The timeout of a client is the duration T and
\* the time left until its deadline; Timeout::reset() makes the time left T
\* again.  The watchdog thread and the callers are fast against the tick:
\* time advances only while the thread is blocked on its semaphore (or does
\* not exist) and no call is in progress.
WdInit ==
    /\ ServerAbsent /\ m_running = FALSE
    /\ conn = [c \in ConnIds |-> NoConn]
    /\ sk = [fd \in Fds |-> NoSock]
    /\ WatchdogAbsent /\ FsmAbsent

Registered == {k \in WdKeys : wdClients[k].reg}

\* Timeout::reset() of one client
Rearmed(cl) == [cl EXCEPT !.left = cl.T]

\* "for (auto& clientData : m_clients) clientData.second.timeout.reset()"
NotRearmedAtStart(cls) == cls

RearmedAtStart(cls) == [k \in WdKeys |-> IF cls[k].reg THEN Rearmed(cls[k]) ELSE cls[k]]

\* The mutex is free and the thread a start() has created has begun to run.
WdApiFree == wdCall = "idle" /\ wdThread.pc # "spawned"

WdReturned(call, ret) == [call |-> call, ret |-> ret]

\* Watchdog::registerClient(clientName, callback, timeout)
WdRegister(v, t) ==
    /\ WdApiFree
    /\ IF wdRunning \/ wdClients[FindKey(v)].reg THEN
          /\ wdLast' = WdReturned("registerClient", FALSE)
          /\ UNCHANGED wdClients
       ELSE
          \* emplace() inserts nothing when the key exists
          /\ wdClients' = IF wdClients[EmplaceKey(v)].reg THEN wdClients
                          ELSE [wdClients EXCEPT ![EmplaceKey(v)] =
                                   [reg |-> TRUE, T |-> t, left |-> t]]
          /\ wdLast' = WdReturned("registerClient", TRUE)
    /\ UNCHANGED <<wdRunning, wdSem, wdStartSem, wdThread, wdCall, wdHist,
                   networkVars, fsmVars>>

\* Watchdog::start() up to the wait for the thread
WdStart ==
    /\ WdApiFree
    /\ IF wdRunning \/ Registered = {} THEN
          /\ wdLast' = WdReturned("start", FALSE)
          /\ UNCHANGED <<wdClients, wdThread, wdCall, wdHist>>
       ELSE
          /\ wdClients' = RearmedAtStart(wdClients)
          /\ wdHist' = NoWdHist
          /\ \/ \* m_thread->start() fails
                /\ wdLast' = WdReturned("start", FALSE)
                /\ UNCHANGED <<wdThread, wdCall>>
             \/ /\ wdThread' = [NoWdThread EXCEPT !.pc = "spawned"]
                /\ wdCall' = "startWait"
                /\ UNCHANGED wdLast
    /\ UNCHANGED <<wdRunning, wdSem, wdStartSem, networkVars, fsmVars>>

\* m_startSemaphore.timedWait(1s) in start()
WdStartWait ==
    /\ wdCall = "startWait"
    /\ \/ /\ wdStartSem > 0
          /\ wdStartSem' = wdStartSem - 1
          /\ wdLast' = WdReturned("start", TRUE)
       \/ /\ wdStartSem = 0
          /\ wdLast' = WdReturned("start", FALSE)
          /\ UNCHANGED wdStartSem
    /\ wdCall' = "idle"
    /\ UNCHANGED <<wdRunning, wdClients, wdSem, wdThread, wdHist,
                   networkVars, fsmVars>>

\* Watchdog::stop() up to m_thread->join()
WdStop ==
    /\ WdApiFree
    /\ IF ~wdRunning THEN
          /\ wdLast' = WdReturned("stop", FALSE)
          /\ UNCHANGED <<wdRunning, wdSem, wdCall>>
       ELSE
          /\ wdSem < MaxTokens
          /\ wdRunning' = FALSE
          /\ wdSem' = wdSem + 1
          /\ wdCall' = "stopJoin"
          /\ UNCHANGED wdLast
    /\ UNCHANGED <<wdClients, wdStartSem, wdThread, wdHist, networkVars, fsmVars>>

\* m_thread->join(); m_thread.reset(); return true
WdStopJoin ==
    /\ wdCall = "stopJoin" /\ wdThread.pc = "done"
    /\ wdThread' = NoWdThread
    /\ wdCall' = "idle"
    /\ wdLast' = WdReturned("stop", TRUE)
    /\ UNCHANGED <<wdRunning, wdClients, wdSem, wdStartSem, wdHist,
                   networkVars, fsmVars>>

\* Watchdog::reset(clientName).  The clients see a call that names the
\* content of the view: since counts from it.
WdReset(v) ==
    /\ WdApiFree
    /\ wdHist' = [wdHist EXCEPT !.since[v.view] = 0, !.resets = TRUE]
    /\ IF ~wdRunning \/ ~wdClients[FindKey(v)].reg THEN
          /\ wdLast' = WdReturned("reset", FALSE)
          /\ UNCHANGED <<wdClients, wdSem>>
       ELSE
          /\ wdSem < MaxTokens
          /\ wdClients' = [wdClients EXCEPT ![FindKey(v)] = Rearmed(@)]
          /\ wdSem' = wdSem + 1
          /\ wdLast' = WdReturned("reset", TRUE)
    /\ UNCHANGED <<wdRunning, wdStartSem, wdThread, wdCall, networkVars, fsmVars>>

\* threadFunc(): m_running = true; m_startSemaphore.signal()
WdThreadBegin ==
    /\ wdThread.pc = "spawned"
    /\ wdRunning' = TRUE
    /\ wdStartSem' = wdStartSem + 1
    /\ wdThread' = [wdThread EXCEPT !.pc = "loop"]
    /\ UNCHANGED <<wdClients, wdSem, wdCall, wdLast, wdHist, networkVars, fsmVars>>

\* getSmallestTimeout(): a copy of the timeout with the least time left
SmallestLeft == CHOOSE n \in {wdClients[k].left : k \in Registered} :
                   \A k \in Registered : n <= wdClients[k].left

\* "while (m_running)" and the call of getSmallestTimeout()
WdThreadLoop ==
    /\ wdThread.pc = "loop"
    /\ wdThread' = IF wdRunning
                   THEN [wdThread EXCEPT !.pc = "wait", !.wait = SmallestLeft]
                   ELSE [wdThread EXCEPT !.pc = "done"]
    /\ UNCHANGED <<wdRunning, wdClients, wdSem, wdStartSem, wdCall, wdLast,
                   wdHist, networkVars, fsmVars>>

\* m_semaphore.timedWait(timeout) returns: a signal was taken, or the copy
\* of the timeout has expired.
WdThreadWake ==
    /\ wdThread.pc = "wait"
    /\ IF wdSem > 0
       THEN wdSem' = wdSem - 1 /\ wdThread' = [wdThread EXCEPT !.pc = "loop"]
       ELSE /\ wdThread.wait = 0
            /\ wdThread' = [wdThread EXCEPT !.pc = "timedOut"]
            /\ UNCHANGED wdSem
    /\ UNCHANGED <<wdRunning, wdClients, wdStartSem, wdCall, wdLast, wdHist,
                   networkVars, fsmVars>>

\* getExpiredClient(): std::find_if over the map in the order of the keys
Expired == {i \in 1..Len(WdKeySeq) :
               wdClients[WdKeySeq[i]].reg /\ wdClients[WdKeySeq[i]].left = 0}

FirstExpired == WdKeySeq[CHOOSE i \in Expired : \A j \in Expired : i <= j]

WdThreadFind ==
    /\ wdThread.pc = "timedOut"
    /\ wdThread' = IF Expired = {} THEN [wdThread EXCEPT !.pc = "loop"]
                   ELSE [wdThread EXCEPT !.pc = "callback", !.cb = FirstExpired]
    /\ UNCHANGED <<wdRunning, wdClients, wdSem, wdStartSem, wdCall, wdLast,
                   wdHist, networkVars, fsmVars>>

Capped(n, cap) == IF n < cap THEN n + 1 ELSE cap

\* client->second.callback(clientName); client->second.timeout.reset()
WdThreadCallback ==
    /\ wdThread.pc = "callback"
    /\ LET k == wdThread.cb IN
       /\ wdHist' = [wdHist EXCEPT !.fired[k] = Capped(@, MaxTime + 1),
                                   !.since[k] = 0, !.due[k] = FALSE]
       /\ wdClients' = [wdClients EXCEPT ![k] = Rearmed(@)]
    /\ wdThread' = [wdThread EXCEPT !.pc = "loop", !.cb = "none"]
    /\ UNCHANGED <<wdRunning, wdSem, wdStartSem, wdCall, wdLast,
                   networkVars, fsmVars>>

\* The callback of the expired client calls reset(clientName) on the watchdog
\* from the watchdog thread: it has to take m_mutex first.
WdCallbackCallsReset ==
    /\ wdThread.pc = "callback"
    /\ wdThread' = [wdThread EXCEPT !.pc = "cbLock"]
    /\ UNCHANGED <<wdRunning, wdClients, wdSem, wdStartSem, wdCall, wdLast,
                   wdHist, networkVars, fsmVars>>

\* m_mutex is free (start() and stop() hold it while they wait): reset() runs
\* in the callback, the callback returns and the timeout is reset once more.
WdCallbackReset ==
    /\ wdThread.pc = "cbLock"
    /\ wdCall = "idle"
    /\ LET k == wdThread.cb IN
       /\ wdHist' = [wdHist EXCEPT !.fired[k] = Capped(@, MaxTime + 1),
                                   !.since[k] = 0, !.due[k] = FALSE,
                                   !.resets = TRUE]
       /\ wdClients' = [wdClients EXCEPT ![k] = Rearmed(@)]
       /\ IF wdRunning
          THEN wdSem < MaxTokens /\ wdSem' = wdSem + 1
          ELSE wdSem' = wdSem
    /\ wdThread' = [wdThread EXCEPT !.pc = "loop", !.cb = "none"]
    /\ UNCHANGED <<wdRunning, wdStartSem, wdCall, wdLast, networkVars, fsmVars>>

\* One tick passes.
WdQuiet ==
    /\ wdCall = "idle"
    /\ \/ wdThread.pc = "none"
       \/ wdThread.pc = "wait" /\ wdSem = 0 /\ wdThread.wait > 0

Less(n) == IF n > 0 THEN n - 1 ELSE 0

WdTick ==
    /\ WdQuiet
    /\ wdThread.pc = "wait" => wdHist.elapsed < MaxTime
    /\ wdClients' = [k \in WdKeys |-> [wdClients[k] EXCEPT !.left = Less(@)]]
    /\ wdThread' = [wdThread EXCEPT !.wait = Less(@)]
    /\ wdHist' = IF wdThread.pc = "none" THEN wdHist
                 ELSE LET since == [k \in WdKeys |->
                                      Capped(wdHist.since[k], MaxT)]
                      IN [wdHist EXCEPT
                            !.elapsed = @ + 1,
                            !.since = since,
                            !.due = [k \in WdKeys |-> @[k] \/
                                       (wdClients[k].reg
                                          /\ since[k] >= wdClients[k].T)]]
    /\ UNCHANGED <<wdRunning, wdSem, wdStartSem, wdCall, wdLast,
                   networkVars, fsmVars>>

WdNext ==
    \/ \E v \in WdViews, t \in 1..MaxT : WdRegister(v, t)
    \/ WdStart
    \/ WdStartWait
    \/ WdStop
    \/ WdStopJoin
    \/ \E v \in WdViews : WdReset(v)
    \/ WdThreadBegin
    \/ WdThreadLoop
    \/ WdThreadWake
    \/ WdThreadFind
    \/ WdThreadCallback
    \/ WdCallbackCallsReset
    \/ WdCallbackReset
    \/ WdTick

WdSpec == WdInit /\ [][WdNext]_vars

\* ============================================================ StateMachine
\* One StateMachine<IAppState> used by the threads FsmThreads.  A thread is
\* either outside (empty stack) or inside a call: a "call" frame is one
\* currentState()->func(), an "exec" frame one executeStateChange().
FsmInit ==
    /\ ServerAbsent /\ m_running = FALSE
    /\ conn = [c \in ConnIds |-> NoConn]
    /\ sk = [fd \in Fds |-> NoSock]
    /\ WatchdogAbsent /\ FsmAbsent

Top(t) == fsmStack[t][Len(fsmStack[t])]

InFrame(t, kind, pcs) ==
    /\ ~fsmCrashed
    /\ fsmStack[t] # <<>>
    /\ Top(t).kind = kind
    /\ Top(t).pc \in pcs

Retop(t, pc) == [fsmStack[t] EXCEPT ![Len(fsmStack[t])].pc = pc]

Popped(t) == SubSeq(fsmStack[t], 1, Len(fsmStack[t]) - 1)

CallFrame(obj) == [kind |-> "call", pc |-> "body", obj |-> obj, scoped |-> FALSE]

ExecFrame(scoped) == [kind |-> "exec", pc |-> "leave", obj |-> NoState, scoped |-> scoped]

\* osal::Mutex of type eRecursive: free, or held by the thread that asks.
AlwaysLockable(t) == TRUE

Lockable(t) == m_mutex.owner \in {0, t}

Locked(t) == [owner |-> t, count |-> m_mutex.count + 1]

Unlocked == IF m_mutex.count = 1 THEN [owner |-> 0, count |-> 0]
            ELSE [m_mutex EXCEPT !.count = @ - 1]

\* std::make_shared<NewState>(this, args...)
Constructed(ty) == [type |-> ty, id |-> fsmObjects + 1]

\* scheduleStateChange<NewState>(): m_newState is empty wherever it is called
\* here, so that assert(!m_newState) passes.
Scheduled(ty) ==
    /\ fsmObjects < MaxObjects
    /\ m_newState' = Constructed(ty)
    /\ fsmObjects' = fsmObjects + 1
    /\ m_changeStateCounter' = m_changeStateCounter + 1

\* What the thread sees when its call from outside returns.
FsmReturned(t, h) == [h EXCEPT !.cur = m_currentState, !.done = TRUE]

Logged(t, hook, obj) ==
    [fsmHist EXCEPT ![t].log = Append(@, [hook |-> hook, obj |-> obj])]

\* StateMachine::changeState<ty>() called by a thread that is outside.
FsmChangeState(t, ty) ==
    /\ ~fsmCrashed
    /\ fsmStack[t] = <<>>
    /\ Lockable(t)
    /\ m_mutex' = Locked(t)
    /\ Scheduled(ty)
    /\ fsmStack' = [fsmStack EXCEPT ![t] = <<ExecFrame(TRUE)>>]
    /\ fsmHist' = [fsmHist EXCEPT ![t] =
                     [op |-> "changeState", target |-> ty, prev |-> m_currentState,
                      made |-> fsmObjects + 1, log |-> <<>>, cur |-> NoState,
                      done |-> FALSE]]
    /\ UNCHANGED <<m_currentState, fsmCrashed, networkVars, watchdogVars>>

\* currentState()->func(): ActionExecutor calls preStateCall(), which locks
\* and reads m_currentState->name(); on a machine without a state that is a
\* null dereference.  Then the method is called on the current state.
FsmPreStateCall(t) ==
    /\ ~fsmCrashed
    /\ fsmStack[t] = <<>>
    /\ Lockable(t)
    /\ m_mutex' = Locked(t)
    /\ IF m_currentState = NoState
       THEN /\ fsmCrashed' = TRUE
            /\ UNCHANGED <<fsmStack, fsmHist>>
       ELSE /\ fsmStack' = [fsmStack EXCEPT ![t] = <<CallFrame(m_currentState)>>]
            /\ fsmHist' = [fsmHist EXCEPT ![t] =
                             [op |-> "call", target |-> FuncTarget[m_currentState.type],
                              prev |-> m_currentState, made |-> 0, log |-> <<>>,
                              cur |-> NoState, done |-> FALSE]]
            /\ UNCHANGED fsmCrashed
    /\ UNCHANGED <<m_currentState, m_newState, m_changeStateCounter, fsmObjects,
                   networkVars, watchdogVars>>

\* The body of func(): the states D, E, F and G call IState::changeState<..>(),
\* which calls StateMachine::changeState<..>(true): lock, schedule, execute.
FsmMethod(t) ==
    /\ InFrame(t, "call", {"body"})
    /\ LET tgt == FuncTarget[Top(t).obj.type] IN
       IF tgt = "none"
       THEN /\ fsmStack' = [fsmStack EXCEPT ![t] = Retop(t, "ret")]
            /\ UNCHANGED <<m_mutex, m_newState, m_changeStateCounter, fsmObjects>>
       ELSE /\ m_mutex' = Locked(t)
            /\ Scheduled(tgt)
            /\ fsmStack' = [fsmStack EXCEPT ![t] =
                              Append(Retop(t, "resume"), ExecFrame(TRUE))]
    /\ UNCHANGED <<m_currentState, fsmHist, fsmCrashed, networkVars, watchdogVars>>

\* The rest of func() after changeState<..>() has returned (a sleep).
FsmMethodResume(t) ==
    /\ InFrame(t, "call", {"resume"})
    /\ fsmStack' = [fsmStack EXCEPT ![t] = Retop(t, "ret")]
    /\ UNCHANGED <<m_mutex, m_currentState, m_newState, m_changeStateCounter,
                   fsmObjects, fsmHist, fsmCrashed, networkVars, watchdogVars>>

\* postStateCall(): "if (m_newState) executeStateChange(); m_mutex.unlock()"
FsmPostStateCall(t) ==
    /\ InFrame(t, "call", {"ret", "unlock"})
    /\ IF Top(t).pc = "ret" /\ m_newState # NoState
       THEN /\ fsmStack' = [fsmStack EXCEPT ![t] =
                              Append(Retop(t, "unlock"), ExecFrame(FALSE))]
            /\ UNCHANGED <<m_mutex, fsmHist>>
       ELSE /\ m_mutex' = Unlocked
            /\ fsmStack' = [fsmStack EXCEPT ![t] = Popped(t)]
            /\ fsmHist' = [fsmHist EXCEPT ![t] = FsmReturned(t, @)]
    /\ UNCHANGED <<m_currentState, m_newState, m_changeStateCounter, fsmObjects,
                   fsmCrashed, networkVars, watchdogVars>>

\* "if (m_currentState)"
NeverLeaves(s) == FALSE

Leaves(s) == s # NoState

\* onLeave() of the state s calls changeState<..>().
LeaveChanges(s) == Leaves(s) /\ LeaveTarget[s.type] # "none"

\* executeStateChange(): onLeave() of the current state, if there is one.
\* The onLeave() of StateL calls changeState<..>() while the state to enter is
\* still held by m_newState: assert(!m_newState) in scheduleStateChange()
\* stops the process; without the assertion the new executeStateChange()
\* calls the same onLeave() again, without end.
FsmLeave(t) ==
    /\ InFrame(t, "exec", {"leave"})
    /\ IF LeaveChanges(m_currentState) /\ m_newState # NoState
       THEN /\ fsmCrashed' = TRUE
            /\ UNCHANGED <<fsmHist, fsmStack>>
       ELSE /\ fsmHist' = IF Leaves(m_currentState)
                          THEN Logged(t, "onLeave", m_currentState.id)
                          ELSE fsmHist
            /\ fsmStack' = [fsmStack EXCEPT ![t] = Retop(t, "swap")]
            /\ UNCHANGED fsmCrashed
    /\ UNCHANGED <<m_mutex, m_currentState, m_newState, m_changeStateCounter,
                   fsmObjects, networkVars, watchdogVars>>

\* "m_currentState = std::move(m_newState)": the old state is destroyed.
FsmSwap(t) ==
    /\ InFrame(t, "exec", {"swap"})
    /\ m_currentState' = m_newState
    /\ m_newState' = NoState
    /\ fsmStack' = [fsmStack EXCEPT ![t] = Retop(t, "enter")]
    /\ UNCHANGED <<m_mutex, m_changeStateCounter, fsmObjects, fsmHist,
                   fsmCrashed, networkVars, watchdogVars>>

\* onEnter() of the new state; the onEnter() of StateH changes the state.
FsmEnter(t) ==
    /\ InFrame(t, "exec", {"enter"})
    /\ fsmHist' = Logged(t, "onEnter", m_currentState.id)
    /\ LET tgt == EnterTarget[m_currentState.type] IN
       IF tgt = "none"
       THEN /\ fsmStack' = [fsmStack EXCEPT ![t] = Retop(t, "done")]
            /\ UNCHANGED <<m_mutex, m_newState, m_changeStateCounter, fsmObjects>>
       ELSE /\ m_mutex' = Locked(t)
            /\ Scheduled(tgt)
            /\ fsmStack' = [fsmStack EXCEPT ![t] =
                              Append(Retop(t, "done"), ExecFrame(TRUE))]
    /\ UNCHANGED <<m_currentState, fsmCrashed, networkVars, watchdogVars>>

\* The end of executeStateChange(): once more if a state is scheduled, then
\* the counter is cleared; the ScopedLock of changeState() is released.
FsmExecDone(t) ==
    /\ InFrame(t, "exec", {"done"})
    /\ IF m_newState # NoState
       THEN /\ fsmStack' = [fsmStack EXCEPT ![t] = Retop(t, "leave")]
            /\ UNCHANGED <<m_mutex, m_changeStateCounter, fsmHist>>
       ELSE /\ m_changeStateCounter' = 0
            /\ m_mutex' = IF Top(t).scoped THEN Unlocked ELSE m_mutex
            /\ fsmStack' = [fsmStack EXCEPT ![t] = Popped(t)]
            /\ fsmHist' = IF Popped(t) = <<>>
                          THEN [fsmHist EXCEPT ![t] = FsmReturned(t, @)]
                          ELSE fsmHist
    /\ UNCHANGED <<m_currentState, m_newState, fsmObjects, fsmCrashed,
                   networkVars, watchdogVars>>

FsmNext ==
    \/ \E t \in FsmThreads, ty \in StateTypes : FsmChangeState(t, ty)
    \/ \E t \in FsmThreads : FsmPreStateCall(t)
    \/ \E t \in FsmThreads : FsmMethod(t)
    \/ \E t \in FsmThreads : FsmMethodResume(t)
    \/ \E t \in FsmThreads : FsmPostStateCall(t)
    \/ \E t \in FsmThreads : FsmLeave(t)
    \/ \E t \in FsmThreads : FsmSwap(t)
    \/ \E t \in FsmThreads : FsmEnter(t)
    \/ \E t \in FsmThreads : FsmExecDone(t)

FsmSpec == FsmInit /\ [][FsmNext]_vars

\* ================================================================ claims
\* ------------------------------------------------------------------- C1
Executing == {u \in UnitIds : units[u].pc = "run"}

\* C1: at most maxConnections connection threads execute the handler at any
\* time.
C1_AdmissionBound == Cardinality(Executing) <= maxConnections

\* maxConnections handlers execute while one more peer waits in the backlog.
C1_Witness == Cardinality(Executing) = maxConnections /\ pending > 0

\* ------------------------------------------------------------------- C2
\* C2: the slot of every accepted connection is released exactly once when
\* its handler has finished, whether it returned or failed.
C2_SlotReleasedOnce ==
    \A u \in UnitIds :
       units[u].pc \in {"done", "joined", "failed"} => units[u].rel = 1

C4_WriteHandsOverBuffer ==
    LET cn == conn[0] IN
    ( /\ cn.op = "write" /\ cn.m_socket = 1
      /\ sk[1].open /\ ~sk[1].reset /\ ~sk[1].peerClosed )
    => /\ cn.pc = "writing" => cn.toWrite <= cn.size
       /\ (cn.pc = "idle" /\ cn.res = "eOk") =>
             sk[1].tx = Stream(cn.size)

\* ------------------------------------------------------------------- C5
\* C5: a read that returns after the peer has closed its side (nothing left
\* to receive, no reset, no timeout) returns RemoteDisconnected and closes
\* the connection.
C5_ReadReportsRemoteDisconnected ==
    [][ ( /\ conn[0].pc = "reading" /\ conn'[0].pc = "idle"
          /\ conn[0].tmo = "inf" /\ conn[0].size > 0 /\ conn[0].m_socket = 1
          /\ sk[1].peerClosed /\ sk[1].rx = <<>> /\ ~sk[1].reset )
        => /\ conn'[0].res = "eRemoteEndpointDisconnected"
           /\ conn'[0].m_socket = m_cUninitialized ]_vars

\* ------------------------------------------------------------------- C6
\* C6: Closed is terminal.  close() leaves the sentinel in the socket
\* handle; once the handle is the sentinel it stays the sentinel under any
\* read, write and close, and every later read or write returns
\* ConnectionNotActive at once.
C6_ClosedIsTerminal ==
    [][ \A c \in ConnIds :
          /\ conn'[c].op = "close" => conn'[c].m_socket = m_cUninitialized
          /\ (conn[c].pc # "none" /\ conn[c].m_socket = m_cUninitialized) =>
                /\ conn'[c].m_socket = m_cUninitialized
                /\ (conn'[c] # conn[c] /\ conn'[c].op \in {"read", "write"}) =>
                      /\ conn'[c].res = "eConnectionNotActive"
                      /\ conn'[c].pc = "idle" ]_vars

\* A write was issued on a connection that an earlier read had closed, and
\* it returned ConnectionNotActive.
C6_Witness ==
    /\ conn[0].m_socket = m_cUninitialized /\ conn[0].op = "write"
    /\ conn[0].res = "eConnectionNotActive" /\ conn[0].rcvd # <<>>

C8_StoppedMeansQuiet ==
    (ctrl = "idle" /\ lastCall = "stop") =>
       /\ ~m_running
       /\ listenPc = "none"
       /\ \A u \in UnitIds : units[u].pc \notin {"spawned", "run"}
       /\ m_socket = m_cUninitialized /\ ~listenOpen

\* stop() has returned after connection threads had been dispatched.
C8_Witness ==
    /\ ctrl = "idle" /\ lastCall = "stop"
    /\ \E u \in UnitIds : units[u].pc = "joined"

C10_StopReturns ==
    (handlerKind = "coop" /\ ctrl = "stopJoin") ~> (ctrl = "idle")

\* ------------------------------------------------------------------ C11
\* C11: when start() has returned Ok the accept loop has signalled and the
\* server runs; when start() has returned Timeout the server is left
\* non-running: the flag is false, no accept loop exists and no listening
\* socket is open.
C11_StartLeavesConsistentState ==
    (ctrl = "idle" /\ lastCall = "start") =>
       /\ lastRet = "eOk" =>
             (m_running /\ listenPc \notin {"none", "spawned", "done"})
       /\ lastRet = "eTimeout" =>
             /\ ~m_running
             /\ listenPc = "none"
             /\ m_socket = m_cUninitialized /\ ~listenOpen

\* ------------------------------------------------------------------ C12
\* C12: start() and start(port) on a running server return ServerRunning
\* and change neither the flag, the port, the listening socket nor the
\* accept thread.
C12_StartWhileRunningRefused ==
    [][ (m_running /\ (Start \/ StartPort)) =>
           /\ lastRet' = "eServerRunning"
           /\ UNCHANGED <<m_running, m_port, m_socket, listenOpen, listenPc,
                          semStart, semConn>> ]_vars

\* start was refused on a server whose accept loop is polling.
C12_Witness ==
    /\ ctrl = "idle" /\ lastCall = "start" /\ lastRet = "eServerRunning"
    /\ m_running /\ listenPc = "select" /\ m_port = cPort

\* ------------------------------------------------------------------ C13
\* C13: on a server that does not run, start(port) with a negative port,
\* and start() when the configured port is negative or unset, return
\* InvalidArgument, create no socket and no accept thread, and the server
\* does not run afterwards.
C13_NegativePortRefused ==
    [][ ( /\ ~m_running
          /\ \/ (CallerIdle /\ StartCall(cNegPort))
             \/ (m_port < 0 /\ Start) )
        => /\ lastRet' = "eInvalidArgument"
           /\ ~m_running'
           /\ UNCHANGED <<m_socket, listenOpen, listenPc>> ]_vars

\* ------------------------------------------------------------------ C15
\* C15: setConnectionHandler returns false and keeps the registered handler
\* when the server runs or a handler is already set; otherwise it returns
\* true and registers the handler.
C15_HandlerSetOnce ==
    [][ \A h \in Handlers : SetHandler(h) =>
           IF m_running \/ m_connectionHandler # 0
           THEN lastRet' = "false" /\ UNCHANGED m_connectionHandler
           ELSE lastRet' = "true" /\ m_connectionHandler' = h ]_vars

\* ------------------------------------------------------------------ C14
\* C14: stop() on a server that was never started or was stopped before has
\* no effect: all through the call the flag is false and no thread and no
\* socket exists.  After a completed stop() the server is stopped, so that
\* start() is neither refused with ServerRunning nor trips the assertion
\* on m_socket, it can create its socket and accept thread, and a start()
\* that returned Ok has the server running.
C14_StopStartCycle ==
    /\ [] ( /\ (ctrl \in {"stopJoin", "stopClear"}
                /\ lastCall \in {"none", "stop"}) =>
                  /\ ~m_running /\ listenPc = "none"
                  /\ m_socket = m_cUninitialized /\ ~listenOpen
                  /\ \A u \in UnitIds : units[u].pc \in {"unused", "joined"}
            /\ (ctrl = "idle" /\ lastCall = "stop") =>
                  (~m_running /\ listenPc = "none"
                     /\ m_socket = m_cUninitialized)
            /\ (~aborted /\ ctrl = "idle" /\ lastCall = "stop") =>
                  ENABLED (Start /\ ctrl' = "startWait")
            /\ (ctrl = "idle" /\ lastCall = "start" /\ lastRet = "eOk") =>
                  m_running )
    /\ [][ /\ (lastCall \in {"none", "stop"} /\ (StopJoin \/ StopClear)) =>
                 UNCHANGED <<m_running, m_socket, listenOpen, listenPc,
                             units, semConn, semStart, conn, sk>>
           /\ (lastCall = "stop" /\ Start) =>
                 (~aborted' /\ lastRet' # "eServerRunning")
           /\ StartSet => m_running' ]_vars

\* A start() has succeeded on a server that had been stopped after it had
\* served a connection.
C14_Witness ==
    /\ ctrl = "idle" /\ lastCall = "start" /\ lastRet = "eOk" /\ m_running
    /\ \E u \in UnitIds : units[u].pc = "joined"

\* ------------------------------------------------------------------ C16
\* C16: a read with a finite timeout that receives no data returns Timeout,
\* and a read that returns Timeout leaves the connection open: the socket
\* handle and the socket are as before.
C16_TimeoutKeepsConnection ==
    [][ (conn[0].pc = "reading" /\ conn'[0].pc = "idle") =>
           /\ (conn[0].tmo = "fin" /\ ~Readable(conn[0].m_socket)) =>
                 conn'[0].res = "eTimeout"
           /\ conn'[0].res = "eTimeout" =>
                 /\ conn[0].tmo = "fin"
                 /\ conn'[0].m_socket = conn[0].m_socket
                 /\ conn'[0].m_socket # m_cUninitialized
                 /\ conn'[0].closes = 0
                 /\ sk' = sk ]_vars

\* A read has returned Timeout on a connection that had delivered data
\* before and is still open.
C16_Witness ==
    /\ conn[0].op = "read" /\ conn[0].pc = "idle" /\ conn[0].res = "eTimeout"
    /\ conn[0].m_socket = 1 /\ sk[1].open /\ conn[0].rcvd # <<>>

\* ------------------------------------------------------------------ C17
\* C17: isParentRunning() is true when the connection has no parent flag,
\* and otherwise the current value of the flag.
C17_ParentRunningOrAbsent ==
    q.asked => (q.parent <=> (~conn[0].hasParent \/ q.running))

\* ------------------------------------------------------------------ C18
\* C18: TcpConnection::close() and TcpClient::disconnect() are idempotent.
\* The descriptor of a connection is released at most once; disconnect()
\* leaves the client not running and its connection closed, and on a client
\* that is not running (never connected, or disconnected before) it changes
\* nothing; close() on a closed connection, as the destructor calls it after
\* disconnect(), releases nothing and changes no handle.
C18_CloseIdempotent ==
    /\ [] (conn[0].closes <= 1)
    /\ [][ /\ CliDisconnect =>
                (~client'.m_running /\ conn'[0].m_socket = m_cUninitialized)
           /\ (CliDisconnect /\ ~client.m_running) =>
                (UNCHANGED <<conn, sk>>
                   /\ client'.m_connection = client.m_connection)
           /\ ((CliDisconnect \/ CliDestroy)
                   /\ conn[0].m_socket = m_cUninitialized) =>
                /\ sk' = sk
                /\ conn'[0].m_socket = m_cUninitialized
                /\ conn'[0].closes = conn[0].closes ]_vars

\* A connected client was destroyed: disconnect() closed the connection and
\* the destructor of the connection called close() again; the descriptor
\* was released once.
C18_Witness ==
    /\ client.call = "destroy" /\ client.m_connection
    /\ conn[0].closes = 1 /\ conn[0].m_socket = m_cUninitialized
    /\ \A fd \in Fds : ~sk[fd].open

\* ------------------------------------------------------------------ C19
\* C19: a client has at most one connected socket; connect() on a connected
\* client returns ClientRunning, creates no connection and no socket, and
\* leaves the connection it has in place.
C19_SingleConnection ==
    /\ [] ( /\ Cardinality({fd \in Fds : sk[fd].open /\ sk[fd].est}) <= 1
            /\ client.m_running => client.m_connection )
    /\ [][ (client.m_running /\ CliConnect) =>
              /\ client'.ret = "eClientRunning"
              /\ client'.m_running /\ client'.m_connection
              /\ UNCHANGED <<conn, sk>> ]_vars

\* connect() was refused on a client whose connection is open.
C19_Witness ==
    /\ client.call = "connect" /\ client.ret = "eClientRunning"
    /\ client.m_running /\ conn[0].m_socket \in Fds
    /\ sk[conn[0].m_socket].open /\ sk[conn[0].m_socket].est

\* ------------------------------------------------------------------ C20
\* C20: on a client that is not connected read() and write() return
\* ClientDisconnected and touch neither a connection nor a socket, and
\* localEndpoint() and remoteEndpoint() return the empty Endpoint.
C20_NotConnectedRefuses ==
    [][ ~client.m_running =>
           /\ (CliRead \/ CliWrite) =>
                 /\ client'.ret = "eClientDisconnected"
                 /\ UNCHANGED <<conn, sk>>
           /\ CliEndpoint =>
                 /\ client'.ep = EmptyEndpoint
                 /\ EmptyEndpoint.ip = "" /\ EmptyEndpoint.port = 0
                 /\ EmptyEndpoint.name = "none"
                 /\ UNCHANGED <<conn, sk>> ]_vars

\* read() was refused on a client that had been connected and disconnected.
C20_Witness ==
    /\ client.call = "read" /\ client.ret = "eClientDisconnected"
    /\ ~client.m_running /\ client.m_connection /\ conn[0].closes = 1

\* ------------------------------------------------------------------ C21
\* C21: a read of size 0 on an active connection returns at once with Ok and
\* no bytes: it never waits in the polling loop, reports neither a timeout
\* nor a disconnect, and the connection is active afterwards.
C21_ZeroSizeReadReturnsAtOnce ==
    (conn[0].op = "read" /\ conn[0].size = 0) =>
       /\ conn[0].pc = "idle"
       /\ conn[0].res \in {"eOk", "eInvalidArgument", "eConnectionNotActive"}
       /\ conn[0].res = "eOk" =>
             (conn[0].m_socket # m_cUninitialized /\ conn[0].bytes = <<>>)

\* ------------------------------------------------------------------ C29
\* C29: when ::read() on the ready socket fails with an error other than
\* EAGAIN, read() closes the connection and returns the generic I/O failure,
\* which is none of ConnectionNotActive, Timeout and RemoteDisconnected.
C29_FatalReceiveIsIoFailure ==
    [][ ( /\ UserReadIter
          /\ Readable(conn[0].m_socket) /\ sk[conn[0].m_socket].reset
          /\ conn'[0].res # "eTimeout" )
        => /\ conn'[0].m_socket = m_cUninitialized
           /\ conn'[0].res \notin {"eOk", "eConnectionNotActive", "eTimeout",
                                   "eClientDisconnected",
                                   "eRemoteEndpointDisconnected"} ]_vars

\* ------------------------------------------------------------------ C30
\* C30: when ::write() fails with an error other than EAGAIN, write() closes
\* the connection and does not return Ok.
C30_FatalSendClosesConnection ==
    [][ (UserWriteIter /\ ~Writable(conn[0].m_socket)) =>
           /\ conn'[0].m_socket = m_cUninitialized
           /\ conn'[0].res # "eOk" ]_vars

\* ------------------------------------------------------------------ C22
\* C22: registerClient returns false when the watchdog is started or the
\* name is registered; start returns false when it is started or no client
\* is registered; stop returns false when it is not started; reset returns
\* false when it is not started or the name is unknown; and each of these
\* calls leaves the running flag and the registered clients as they were.
C22_GuardedOperations ==
    [][ /\ \A v \in WdViews, t \in 1..MaxT :
              (WdRegister(v, t) /\ (wdRunning \/ wdClients[v.view].reg)) =>
                 (~wdLast'.ret /\ UNCHANGED <<wdRunning, wdClients>>)
        /\ (WdStart /\ (wdRunning \/ Registered = {})) =>
              (~wdLast'.ret /\ UNCHANGED <<wdRunning, wdClients>>)
        /\ (WdStop /\ ~wdRunning) =>
              (~wdLast'.ret /\ UNCHANGED <<wdRunning, wdClients>>)
        /\ \A v \in WdViews :
              (WdReset(v) /\ (~wdRunning \/ ~wdClients[v.view].reg)) =>
                 (~wdLast'.ret /\ UNCHANGED <<wdRunning, wdClients>>) ]_vars

\* ------------------------------------------------------------------ C23
\* C23: while no reset() is called, a client with timeout T has had as many
\* callbacks as periods T have elapsed since start(): never more (none
\* before T has elapsed since start(), one per period), and exactly as many
\* whenever the thread has gone back to wait; the callback is invoked for a
\* registered client, under its own name, whose deadline has expired.
C23_OncePerPeriod ==
    (wdThread.pc # "none" /\ ~wdHist.resets) =>
       /\ \A k \in Registered :
             /\ wdHist.fired[k] <= wdHist.elapsed \div wdClients[k].T
             /\ (wdThread.pc = "wait" /\ wdSem = 0 /\ wdThread.wait > 0) =>
                   wdHist.fired[k] = wdHist.elapsed \div wdClients[k].T
       /\ wdThread.pc = "callback" =>
             /\ wdThread.cb \in Registered
             /\ wdClients[wdThread.cb].left = 0

\* Two clients with the same timeout that were registered at different
\* times have both had their second callback.
C23_Witness ==
    /\ wdThread.pc = "wait" /\ ~wdHist.resets /\ Registered = WdKeys
    /\ wdClients["c1"].T = wdClients["c12"].T
    /\ wdHist.elapsed = 2 * wdClients["c1"].T
    /\ wdHist.fired["c1"] = 2 /\ wdHist.fired["c12"] = 2

\* ------------------------------------------------------------------ C24
\* C24: the callback of a client is invoked only after one of its deadlines,
\* counted from start() or from the last reset() that names the client, has
\* expired; a client that is reset before each deadline gets no callback.
C24_ResetInTimeNoCallback ==
    wdThread.pc = "callback" => wdHist.due[wdThread.cb]

\* ------------------------------------------------------------------ C25
\* C25: reset(a) changes the deadline of no client but a; the thread never
\* lets time pass while a deadline has expired, however many signals the
\* resets of other clients leave; and the client picked for the callback is
\* one whose deadline has expired.
C25_ResetTouchesOneClient ==
    [][ /\ \A v \in WdViews : WdReset(v) =>
              \A k \in WdKeys \ {v.view} : wdClients'[k] = wdClients[k]
        /\ (WdTick /\ wdThread.pc = "wait") =>
              \A k \in Registered : wdClients[k].left > 0
        /\ (WdThreadFind /\ wdThread'.pc = "callback") =>
              wdClients[wdThread'.cb].left = 0 ]_vars

\* ------------------------------------------------------------------ C26
FsmOutsideChanges == {t \in FsmThreads : fsmHist[t].op = "changeState" /\ fsmHist[t].done}

\* The hooks of one change from prev to the object made: onLeave() of the
\* previous state, if there was one, then onEnter() of the new state.
HooksOfChange(h) ==
    (IF h.prev = NoState THEN <<>> ELSE <<[hook |-> "onLeave", obj |-> h.prev.id]>>)
    \o <<[hook |-> "onEnter", obj |-> h.made]>>

ChangedAsAsked(h) ==
    /\ h.cur = [type |-> h.target, id |-> h.made]
    /\ h.made # h.prev.id
    /\ h.log = HooksOfChange(h)

MethodFrames(t) ==
    {i \in DOMAIN fsmStack[t] :
        fsmStack[t][i].kind = "call" /\ fsmStack[t][i].pc \in {"body", "resume"}}

\* C27: a state method that calls changeState<Y>() runs to its end on the old
\* state, which stays the current state until the method has returned; after
\* the call the current state is a Y.
C27_ChangeAfterMethodReturns ==
    \A t \in FsmThreads :
        /\ \A i \in MethodFrames(t) : m_currentState = fsmStack[t][i].obj
        /\ (fsmHist[t].op = "call" /\ fsmHist[t].done /\ fsmHist[t].target # "none")
              => fsmHist[t].cur.type = fsmHist[t].target

\* ------------------------------------------------------------------ C28
FsmInside == {t \in FsmThreads : fsmStack[t] # <<>>}

\* The locks a thread holds: one per state call, one per changeState().
LocksHeld(t) ==
    Cardinality({i \in DOMAIN fsmStack[t] :
                    fsmStack[t][i].kind = "call" \/ fsmStack[t][i].scoped})

\* C28: at most one thread is inside a state method or a change of state, it
\* holds the mutex; the current state is replaced by no other thread while a
\* thread is inside one of its methods; when a call returns the lock it took
\* is released.
C28_ThreadSafe ==
    [][ /\ Cardinality(FsmInside') <= 1
        /\ \A t \in FsmInside' :
              m_mutex'.owner = t /\ m_mutex'.count = LocksHeld(t)'
        /\ \A t \in FsmThreads :
              (MethodFrames(t) # {} /\ m_currentState' # m_currentState)
                 => fsmStack'[t] # fsmStack[t]
        /\ \A t \in FsmInside \ FsmInside' : m_mutex' = [owner |-> 0, count |-> 0]
      ]_vars

C28_Witness ==
    /\ ~fsmCrashed
    /\ \E t \in FsmThreads, u \in FsmThreads :
          /\ t # u
          /\ MethodFrames(t) # {}
          /\ fsmStack[u] = <<>> /\ ~Lockable(u)
          /\ fsmHist[u].done

\* ------------------------------------------------------------------ C31
\* C31: a pass of read() or write() in which the system call fails with
\* EAGAIN leaves the call in its loop, with the connection open and nothing
\* returned; a call that has seen EAGAIN returns only for another cause:
\* read() because the socket has something to report or the timeout has
\* expired, with eOk when data has arrived; write() because bytes were
\* handed over, ::write() returned 0 or failed for good.
C31_TransientAbsorbed ==
    [][ LET fd == conn[0].m_socket IN
        /\ ((UserReadIter \/ UserWriteIter) /\ conn'[0].again /\ ~conn[0].again)
              => /\ conn'[0].pc = conn[0].pc
                 /\ conn'[0].res = "pending"
                 /\ conn'[0].m_socket = fd /\ conn'[0].closes = conn[0].closes
                 /\ conn'[0].toWrite = conn[0].toWrite
                 /\ sk' = sk
        /\ (UserReadIter /\ conn[0].again /\ conn'[0].pc = "idle")
              => /\ Readable(fd) \/ conn'[0].res = "eTimeout"
                 /\ conn'[0].res = "eTimeout" => conn[0].tmo = "fin"
                 /\ (conn'[0].res # "eTimeout" /\ sk[fd].rx # <<>>
                        /\ ~sk[fd].reset /\ conn[0].size > 0)
                       => conn'[0].res = "eOk" /\ conn'[0].bytes # <<>>
        /\ (UserWriteIter /\ conn[0].again /\ conn'[0].pc = "idle")
              => \/ ~Writable(fd)
                 \/ conn'[0].res = "eWriteError"
                 \/ conn'[0].res = "eOk" /\ Len(sk'[fd].tx) > Len(sk[fd].tx)
      ]_vars

C31_Witness ==
    /\ conn[0].again /\ conn[0].pc = "idle"
    /\ conn[0].op = "read" /\ conn[0].res = "eOk" /\ conn[0].bytes # <<>>

\* ------------------------------------------------------------------ C32
\* stop() has returned, the server is not running, its listening thread is
\* gone and no connection thread is left between its start and its end.
StoppedAndQuiet ==
    /\ ~aborted /\ ctrl = "idle" /\ lastCall = "stop"
    /\ ~m_running /\ listenPc = "none"
    /\ \A u \in UnitIds : units[u].pc \notin {"spawned", "run"}

\* C32: whenever the server is stopped and no handler is executing, every
\* admission slot is free: the semaphore counts maxConnections.
C32_NoSlotLeaked == StoppedAndQuiet => semConn = maxConnections

\* ------------------------------------------------------------------ C33
\* C33: the connection thread u builds its TcpConnection from the socket
\* that accept4() returned for it (descriptor u), whatever the listening
\* thread has done since.
C33_UnitUsesOwnAccept ==
    [][ \A u \in UnitIds : UnitBegin(u) => conn'[u].m_socket = u ]_vars

\* ------------------------------------------------------------------ C34
\* C34: a call of start() that passes the check of m_running and of the port
\* finds m_socket == -1 at "assert(m_socket == -1)".
C34_StartFindsNoSocket ==
    [][ (Start /\ ~m_running /\ m_port' # m_cUninitialized)
           => m_socket = m_cUninitialized ]_vars

\* ------------------------------------------------------------------ C35
ConnectErrors == {"eClientRunning", "eSocketError", "eInvalidArgument",
                  "eConnectError"}

\* C35: when connect() returns an error, the descriptors open after the call
\* are those open before it, and the client is connected or not as before.
C35_FailedConnectLeavesNothing ==
    [][ (CliConnect /\ client'.ret \in ConnectErrors)
           => /\ \A fd \in Fds : sk'[fd].open = sk[fd].open
              /\ client'.m_running = client.m_running
              /\ conn' = conn ]_vars

\* ------------------------------------------------------------------ C36
\* C36: between two calls, a client in the connected state (m_running, so
\* that connect() answers eClientRunning and read/write are delegated) has a
\* connection that is active.
C36_ConnectedMeansActive ==
    (ClientIdle /\ ConnectRefused(client) /\ ~NotConnected(client))
       => isActive(0)

\* ------------------------------------------------------------------ C37
\* C37: once the connection thread u has ended, the descriptor accepted for
\* it (descriptor u) is closed, and the connection objects it went through
\* have called ::close() exactly once, on that descriptor.
C37_ClosedExactlyOnce ==
    \A u \in UnitIds :
        units[u].pc \in {"done", "joined"}
           => /\ ~sk[u].open
              /\ conn[u].closes = 1
              /\ conn[u].m_socket = m_cUninitialized

\* ------------------------------------------------------------------ C38
\* A step of the watchdog thread, or the return of join() in stop().
WdThreadOrJoinStep ==
    \/ WdStopJoin
    \/ WdThreadLoop
    \/ WdThreadWake
    \/ WdThreadFind
    \/ WdThreadCallback
    \/ WdCallbackCallsReset
    \/ WdCallbackReset

\* C38: while stop() waits in m_thread->join(), the watchdog thread can take
\* its next step or has ended and join() returns: stop() never waits for a
\* thread that waits for stop().
C38_StopNeverStuck == wdCall = "stopJoin" => ENABLED WdThreadOrJoinStep

\* ------------------------------------------------------------------ C39
\* The next step of the watchdog thread reads m_running ("while (m_running)"),
\* reads the timeouts of the clients (getSmallestTimeout(),
\* getExpiredClient()) or writes one (timeout.reset() after the callback).
ThreadReadsRunning == wdThread.pc = "loop"

ThreadTouchesTimeouts ==
    \/ wdThread.pc = "loop" /\ wdRunning
    \/ wdThread.pc \in {"timedOut", "callback"}

\* A thread of the user can now run reset() up to its write of a timeout, or
\* stop() up to its write of m_running.
ResetWritesTimeout == \E v \in WdViews : ENABLED (WdReset(v) /\ wdLast'.ret)

StopWritesRunning == ENABLED (WdStop /\ ~wdRunning')

\* C39: an access of the watchdog thread to the timeouts is never possible
\* at the same time as the write of reset(), and its read of m_running never
\* at the same time as the write of stop().
C39_NoConcurrentAccess ==
    /\ ~(ThreadTouchesTimeouts /\ ResetWritesTimeout)
    /\ ~(ThreadReadsRunning /\ StopWritesRunning)

\* ------------------------------------------------------------------ C40
\* The steps in which changeState<..>() is called and reaches
\* scheduleStateChange(): from outside, from func(), from onEnter() and from
\* onLeave().
SchedulingStep ==
    \E t \in FsmThreads :
        \/ \E ty \in StateTypes : FsmChangeState(t, ty)
        \/ FsmMethod(t) /\ FuncTarget[Top(t).obj.type] # "none"
        \/ FsmEnter(t) /\ EnterTarget[m_currentState.type] # "none"
        \/ FsmLeave(t) /\ LeaveChanges(m_currentState)

\* C40: m_newState is empty at every call of scheduleStateChange(), and when
\* a changeState() from outside has returned no state is pending and the
\* counter of recursive calls is zero.
C40_NoPendingStateAtSchedule ==
    [][ /\ SchedulingStep => m_newState = NoState
        /\ \A t \in FsmThreads :
              (fsmHist'[t].op = "changeState" /\ fsmHist'[t].done /\ ~fsmHist[t].done)
                 => m_newState' = NoState /\ m_changeStateCounter' = 0
      ]_vars
====
